---- MODULE Spec2Model ----
(***************************************************************************)
(* Directory tree operations of the virtual file system (vfs/directory.go) *)
(* over the document store and the byte storage backend, together with    *)
(* the local directory cache (LocalCache).                                 *)
(*                                                                         *)
(* Paths and names are sequences of one-character strings, so that        *)
(* path.Join, path.Clean and strings.HasPrefix are computed as the code    *)
(* computes them on strings.                                               *)
(***************************************************************************)
EXTENDS Integers, Sequences, FiniteSets, TLC

\* ------------------------------------------------------------------ bounds
MaxDirs == 3
MaxMods == 2
MaxEntries == 2
MaxReaders == 2

\* The two request goroutines that call into the package concurrently.
Procs == {"p1", "p2"}

\* ------------------------------------------------------------ path algebra
Sep == "/"
RootPath == <<Sep>>

HasPrefix(s, pre) == Len(pre) <= Len(s) /\ SubSeq(s, 1, Len(pre)) = pre

RECURSIVE Squeeze(_)
Squeeze(s) ==
  IF Len(s) < 2 THEN s
  ELSE IF s[1] = Sep /\ s[2] = Sep THEN Squeeze(Tail(s))
       ELSE <<s[1]>> \o Squeeze(Tail(s))

Clean(p) ==
  IF p = <<>> THEN <<".">>
  ELSE LET q == Squeeze(p)
       IN IF Len(q) > 1 /\ q[Len(q)] = Sep THEN SubSeq(q, 1, Len(q) - 1) ELSE q

Join(a, b) ==
  IF a = <<>> /\ b = <<>> THEN <<>>
  ELSE IF a = <<>> THEN Clean(b)
  ELSE IF b = <<>> THEN Clean(a)
  ELSE Clean(a \o <<Sep>> \o b)

IsAbs(p) == Len(p) > 0 /\ p[1] = Sep

RECURSIVE LastSep(_)
LastSep(p) == IF p = <<>> THEN 0 ELSE IF p[Len(p)] = Sep THEN Len(p) ELSE LastSep(SubSeq(p, 1, Len(p) - 1))

Dir(p) == LET i == LastSep(p) IN IF i = 0 THEN <<".">> ELSE Clean(SubSeq(p, 1, i))

\* ------------------------------------------------------------- documents
RootFolderID == 0
NoID == -1
DirType == "directory"
NoDoc ==
  [type |-> "none", id |-> NoID, rev |-> 0, name |-> <<>>, folder |-> NoID,
   path |-> <<>>, tags |-> <<>>]
Nil == "nil"

Names == {<<"a">>, <<"a", "b">>}
BadNames == {<<>>, <<"a", Sep>>}
TagLists == {<<>>, <<"t", "t">>}
DirIDs == 1..MaxDirs

\* the (name, tags) arguments given to NewDirDoc
CreateInputs ==
  {[name |-> <<"a">>, tags |-> <<"t", "t">>], [name |-> <<"a", "b">>, tags |-> <<>>],
   [name |-> <<>>, tags |-> <<>>], [name |-> <<"a", Sep>>, tags |-> <<"t">>]}

checkFileName(name) == name # <<>> /\ \A i \in 1..Len(name) : name[i] # Sep

RECURSIVE uniqueTags(_)
uniqueTags(tags) ==
  IF tags = <<>> THEN <<>>
  ELSE LET rest == uniqueTags(SubSeq(tags, 1, Len(tags) - 1))
           t == tags[Len(tags)]
       IN IF \E i \in 1..Len(rest) : rest[i] = t THEN rest ELSE Append(rest, t)

\* the constructor keeping the tags as given
NewDirDocRawTags(name, folderID, tags) ==
  [type |-> DirType, id |-> NoID, rev |-> 0, name |-> name, folder |-> folderID,
   path |-> <<>>, tags |-> tags]

NewDirDoc(name, folderID, tags) ==
  [type |-> DirType, id |-> NoID, rev |-> 0, name |-> name, folder |-> folderID,
   path |-> <<>>, tags |-> uniqueTags(tags)]

\* ----------------------------------------------------------------- state
VARIABLES
  store,   \* document store: id -> record (couchdb database of FsDocType)
  fs,      \* byte storage backend: the set of paths that exist (c.fs)
  lrud,    \* LocalCache.lrud: cached directory records, most recent first
  pthd,    \* LocalCache.pthd: path -> id
  lruf,    \* LocalCache.lruf: cached file records, most recent first
  pthf,    \* LocalCache.pthf: (folder, name) -> id
  touched, \* the MaxEntries directories touched last in the cache, the last one first
  proc,    \* per goroutine: position and locals of the running operation
  nmods,   \* number of ModifyDirMetadata calls started
  locks,   \* LocalCache.mud and LocalCache.muf: the writer and the number of readers
  pre      \* the store and the backend as they were when the last call began

vars == <<store, fs, lrud, pthd, lruf, pthf, touched, proc, nmods, locks, pre>>

\* a sync.RWMutex nobody holds, and the two of LocalCache (lines 16 and 20)
NoHolder == "none"

Unlocked ==
  [mud |-> [w |-> NoHolder, r |-> 0], muf |-> [w |-> NoHolder, r |-> 0]]

NoSnapshot == [store |-> <<>>, fs |-> {}]

Idle ==
  [pc |-> "idle", op |-> "none", olddoc |-> NoDoc, newdoc |-> NoDoc,
   oldpath |-> <<>>, newpath |-> <<>>, children |-> <<>>, err |-> Nil,
   arg |-> <<>>, calls |-> {}, over |-> FALSE, errfrom |-> NoID, rcv |-> <<>>]

Init ==
  /\ store = <<>>
  /\ fs = {}
  /\ lrud = <<>>
  /\ pthd = <<>>
  /\ lruf = <<>>
  /\ pthf = <<>>
  /\ touched = <<>>
  /\ proc = [p \in Procs |-> Idle]
  /\ nmods = 0
  /\ locks = Unlocked
  /\ pre = NoSnapshot

HasDoc(id) == id \in DOMAIN store

\* ------------------------------------------------------ document store
\* couchdb.GetDoc followed by the checks of GetDirDoc
GetDirDoc(fileID) ==
  IF ~HasDoc(fileID) THEN [err |-> "ErrParentDoesNotExist", doc |-> NoDoc]
  ELSE IF store[fileID].type # DirType THEN [err |-> "ErrNotExist", doc |-> NoDoc]
  ELSE [err |-> Nil, doc |-> store[fileID]]

\* couchdb.FindDocs with mango.Equal("path", path.Clean(name)), Limit 1:
\* the set of records the store may return
FindByPath(name) == {store[i] : i \in {j \in DOMAIN store : store[j].path = Clean(name)}}

\* the selector without the separator that ends the prefix
FindByPrefixNoSep(prefix) ==
  {i \in DOMAIN store : HasPrefix(store[i].path, SubSeq(prefix, 1, Len(prefix) - 1))}

\* couchdb.FindDocs with mango.StartWith("path", prefix)
FindByPrefix(prefix) == {i \in DOMAIN store : HasPrefix(store[i].path, prefix)}

\* couchdb.UpdateDoc: the revision presented must be the stored one
UpdateErr(doc) ==
  IF ~HasDoc(doc.id) THEN "NotFound"
  ELSE IF store[doc.id].rev # doc.rev THEN "Conflict"
  ELSE Nil

Updated(st, doc) == [st EXCEPT ![doc.id] = [doc EXCEPT !.rev = doc.rev + 1]]

\* couchdb.CreateDoc: the store assigns the identifier and the first revision
FreeIDs == DirIDs \ DOMAIN store
NextID == CHOOSE i \in FreeIDs : \A j \in FreeIDs : i <= j

Created(st, doc) ==
  LET d == [doc EXCEPT !.id = NextID, !.rev = 1]
  IN [i \in DOMAIN st \cup {NextID} |-> IF i = NextID THEN d ELSE st[i]]

\* ------------------------------------------------- byte storage backend
IsUnder(p, anc) ==
  p # anc /\ HasPrefix(p, IF anc = RootPath THEN RootPath ELSE anc \o <<Sep>>)

MkdirOK(f, name) == name \notin f /\ Dir(name) \in f

RemoveOK(f, name) == name \in f /\ ~\E q \in f : IsUnder(q, name)

\* the backend lets a directory be moved under itself
RenameOKUnderItself(f, old, new) ==
  /\ old \in f
  /\ Dir(new) \in f
  /\ old # new
  /\ new \in f => ~\E q \in f : IsUnder(q, new)

\* c.fs.Rename(oldpath, newpath) succeeds
RenameOK(f, old, new) ==
  /\ old \in f
  /\ Dir(new) \in f
  /\ old # new
  /\ ~IsUnder(new, old)
  /\ new \in f => ~\E q \in f : IsUnder(q, new)

Renamed(f, old, new) ==
  {IF q = old \/ IsUnder(q, old) THEN new \o SubSeq(q, Len(old) + 1, Len(q)) ELSE q : q \in f}

\* ------------------------------------------------------- step recording
\* goroutine p moves to record r
Step(p, r) == proc' = [proc EXCEPT ![p] = r]

Finish(r, e) == [r EXCEPT !.pc = "done", !.err = e]

\* the external calls (store, backend) the running operation has made
Called(r, c) == [r EXCEPT !.calls = @ \cup {c}]

\* over: the call begins while another goroutine is inside a call
Begin(p, opname) ==
  [Idle EXCEPT !.op = opname,
               !.over = \E q \in Procs \ {p} : proc[q].pc \notin {"idle", "done"}]

Snapshot == pre' = [store |-> store, fs |-> fs]

Forget == pre' = NoSnapshot

\* --------------------------------------------------- CreateRootDirectory
RootDoc ==
  [type |-> DirType, id |-> RootFolderID, rev |-> 1, name |-> <<>>, folder |-> NoID,
   path |-> RootPath, tags |-> <<>>]

\* MkdirAll, CreateNamedDocWithDB and, when that fails, the deferred Remove.
\* It is called once, when the instance is provisioned, by one goroutine.
CreateRootDirectory(p, storeFails) ==
  /\ \A q \in Procs : proc[q].pc = "idle"
  /\ ~HasDoc(RootFolderID)
  /\ IF storeFails
     THEN /\ fs' = (fs \cup {RootPath}) \ {RootPath}
          /\ store' = store
          /\ Step(p, Finish(Called(Begin(p, "root"), "remove"), "StoreError"))
     ELSE /\ fs' = fs \cup {RootPath}
          /\ store' = [i \in {RootFolderID} |-> RootDoc]
          /\ Step(p, Finish(Begin(p, "root"), Nil))
  /\ UNCHANGED <<lrud, pthd, lruf, pthf, touched, nmods, locks>>

\* ------------------------------------------------------- CreateDirectory
\* NewDirDoc, then doc.Path: the parent is resolved by its identifier and the
\* path is memoized on the document
CreateBegin(p, name, folderID, tags) ==
  /\ proc[p].pc = "idle"
  /\ Cardinality({q \in Procs : proc[q].op = "create"}) < Cardinality(FreeIDs)
  /\ LET r == [Begin(p, "create") EXCEPT !.arg = tags]
         fid == IF folderID = NoID THEN RootFolderID ELSE folderID
         doc == NewDirDoc(name, fid, tags)
         parent == GetDirDoc(fid)
     IN IF ~checkFileName(name) THEN Step(p, Finish(r, "ErrIllegalFilename"))
        ELSE IF parent.err # Nil THEN Step(p, Finish(Called([r EXCEPT !.newdoc = doc], "get"), parent.err))
        ELSE Step(p, Called([r EXCEPT !.pc = "c_mkdir",
                               !.newdoc = [doc EXCEPT !.path = Join(parent.doc.path, name)],
                               !.newpath = Join(parent.doc.path, name)], "get"))
  /\ UNCHANGED <<store, fs, lrud, pthd, lruf, pthf, touched, nmods, locks>>

\* c.fs.Mkdir(name, 0755)
CreateMkdir(p, fails) ==
  /\ proc[p].pc = "c_mkdir"
  /\ LET name == proc[p].newdoc.path
         r == Called(proc[p], "mkdir")
     IN IF fails \/ ~MkdirOK(fs, name)
        THEN /\ fs' = fs
             /\ Step(p, Finish(r, "BackendError"))
        ELSE /\ fs' = fs \cup {name}
             /\ Step(p, [r EXCEPT !.pc = "c_create"])
  /\ UNCHANGED <<store, lrud, pthd, lruf, pthf, touched, nmods, locks>>

\* couchdb.CreateDoc(c.db, doc)
CreateStore(p, fails) ==
  /\ proc[p].pc = "c_create"
  /\ LET r == Called(proc[p], "create")
     IN IF fails
        THEN /\ store' = store
             /\ Step(p, [r EXCEPT !.pc = "c_remove", !.err = "StoreError"])
        ELSE /\ store' = Created(store, proc[p].newdoc)
             /\ Step(p, Finish([r EXCEPT !.newdoc = [@ EXCEPT !.id = NextID, !.rev = 1]], Nil))
  /\ UNCHANGED <<fs, lrud, pthd, lruf, pthf, touched, nmods, locks>>

\* no deferred removal
RollbackNone(f, name) == f

\* the deferred c.fs.Remove(name), whose own error is dropped
Rollback(f, name) == IF RemoveOK(f, name) THEN f \ {name} ELSE f

CreateRemove(p) ==
  /\ proc[p].pc = "c_remove"
  /\ fs' = Rollback(fs, proc[p].newdoc.path)
  /\ Step(p, Finish(Called(proc[p], "remove"), proc[p].err))
  /\ UNCHANGED <<store, lrud, pthd, lruf, pthf, touched, nmods, locks>>

\* the caller has the result and the goroutine is free again
Return(p) ==
  /\ proc[p].pc = "done"
  /\ proc' = [q \in Procs |-> IF q = p THEN Idle ELSE [proc[q] EXCEPT !.over = FALSE]]
  /\ UNCHANGED <<store, fs, lrud, pthd, lruf, pthf, touched, nmods, locks>>

\* ----------------------------------------------------- ModifyDirMetadata
\* A DocPatch field is a pointer: absent ({}) or present ({value}).
Opt(S) == {{}} \cup {{x} : x \in S}

Val(o) == CHOOSE x \in o : TRUE

Patches ==
  [name : Opt(Names \cup BadNames),
   folder : Opt({RootFolderID} \cup DirIDs),
   tags : Opt(TagLists)]

\* normalizeDocPatch: a field the patch leaves out keeps the old value
normalizeDocPatch(olddoc, patch) ==
  [name |-> IF patch.name = {} THEN olddoc.name ELSE Val(patch.name),
   folder |-> IF patch.folder = {} THEN olddoc.folder ELSE Val(patch.folder),
   tags |-> IF patch.tags = {} THEN olddoc.tags ELSE Val(patch.tags)]

\* the new document without the revision of the old one
NewDocForNoRev(olddoc, np) ==
  [NewDirDoc(np.name, IF np.folder = NoID THEN RootFolderID ELSE np.folder, np.tags)
     EXCEPT !.id = olddoc.id]

\* the new document (lines 292, 308-309): built by NewDirDoc from the patched
\* fields, with the identifier and the revision of the old one
NewDocFor(olddoc, np) ==
  [NewDirDoc(np.name, IF np.folder = NoID THEN RootFolderID ELSE np.folder, np.tags)
     EXCEPT !.id = olddoc.id, !.rev = olddoc.rev]

\* the caller's olddoc is the record as read from the store (GetDirDoc); the
\* patch is normalized and the new document built.
ModifyBegin(p, id, patch) ==
  /\ proc[p].pc = "idle"
  /\ nmods < MaxMods
  /\ HasDoc(id)
  /\ nmods' = nmods + 1
  /\ LET olddoc == store[id]
         np == normalizeDocPatch(olddoc, patch)
         r == Called([Begin(p, "modify") EXCEPT !.olddoc = olddoc], "get")
     IN IF ~checkFileName(np.name) THEN Step(p, Finish(r, "ErrIllegalFilename"))
        ELSE Step(p, [r EXCEPT !.pc = "m_path", !.newdoc = NewDocFor(olddoc, np)])
  /\ UNCHANGED <<store, fs, lrud, pthd, lruf, pthf, touched, locks>>

\* the rename and the propagation run whatever the paths are
PathChangedAlways(oldpath, newpath) == TRUE

\* line 325
PathChanged(oldpath, newpath) == oldpath # newpath

\* newdoc.Parent / olddoc.Path / newdoc.Path (lines 297-323): the parent of
\* the new document is read from the store and the new path derived from it
ModifyPath(p) ==
  /\ proc[p].pc = "m_path"
  /\ LET r == Called(proc[p], "get")
         parent == GetDirDoc(r.newdoc.folder)
         oldpath == r.olddoc.path
         newpath == Join(parent.doc.path, r.newdoc.name)
     IN IF parent.err # Nil THEN Step(p, Finish(r, parent.err))
        ELSE Step(p, [r EXCEPT !.pc = IF PathChanged(oldpath, newpath) THEN "m_stat" ELSE "m_update",
                               !.oldpath = oldpath, !.newpath = newpath,
                               !.newdoc = [@ EXCEPT !.path = newpath]])
  /\ UNCHANGED <<store, fs, lrud, pthd, lruf, pthf, touched, nmods, locks>>

\* safeRenameDirectory up to and including c.fs.Stat(newpath); statFails is a
\* stat error other than "does not exist"
\* the prefix test with its arguments exchanged
ForbiddenMoveSwapped(oldpath, newpath) == HasPrefix(oldpath, newpath \o <<Sep>>)

\* line 404
ForbiddenMove(oldpath, newpath) == HasPrefix(newpath, oldpath \o <<Sep>>)

\* safeRenameDirectory without the test that the new path is free
SafeRenameErrNoExist(f, oldpath, newpath, statFails) ==
  IF ~IsAbs(newpath) \/ ~IsAbs(oldpath) THEN "NotAbsolute"
  ELSE IF ForbiddenMove(oldpath, newpath) THEN "ErrForbiddenDocMove"
  ELSE IF statFails THEN "StatError"
  ELSE Nil

\* the result of safeRenameDirectory before it renames (lines 397-414); Nil
\* lets the rename go ahead
SafeRenameErr(f, oldpath, newpath, statFails) ==
  IF ~IsAbs(newpath) \/ ~IsAbs(oldpath) THEN "NotAbsolute"
  ELSE IF ForbiddenMove(oldpath, newpath) THEN "ErrForbiddenDocMove"
  ELSE IF statFails THEN "StatError"
  ELSE IF newpath \in f THEN "ErrExist"
  ELSE Nil

SafeRenameCheck(p, statFails) ==
  /\ proc[p].pc = "m_stat"
  /\ LET e == SafeRenameErr(fs, Clean(proc[p].oldpath), Clean(proc[p].newpath), statFails)
         r == IF e \in {"NotAbsolute", "ErrForbiddenDocMove"} THEN proc[p] ELSE Called(proc[p], "stat")
     IN IF e # Nil THEN Step(p, Finish(r, e))
        ELSE Step(p, [r EXCEPT !.pc = "m_rename"])
  /\ UNCHANGED <<store, fs, lrud, pthd, lruf, pthf, touched, nmods, locks>>

\* c.fs.Rename(oldpath, newpath)
SafeRenameMove(p, fails) ==
  /\ proc[p].pc = "m_rename"
  /\ LET newpath == Clean(proc[p].newpath)
         oldpath == Clean(proc[p].oldpath)
         r == Called(proc[p], "rename")
     IN IF fails \/ ~RenameOK(fs, oldpath, newpath)
        THEN /\ fs' = fs
             /\ Step(p, Finish(r, "BackendError"))
        ELSE /\ fs' = Renamed(fs, oldpath, newpath)
             /\ Step(p, [r EXCEPT !.pc = "m_find"])
  /\ UNCHANGED <<store, lrud, pthd, lruf, pthf, touched, nmods, locks>>

\* bulkUpdateDocsPath: the prefix query and the spawning of one goroutine
\* per child (lines 342-361)
BulkFind(p, fails) ==
  /\ proc[p].pc = "m_find"
  /\ LET r == Called(proc[p], "find")
         found == FindByPrefix(r.oldpath \o <<Sep>>)
     IN IF fails THEN Step(p, Finish(r, "StoreError"))
        ELSE IF found = {} THEN Step(p, [r EXCEPT !.pc = "m_update"])
        ELSE Step(p, [r EXCEPT !.pc = "m_collect",
                               !.children = [i \in found |-> [doc |-> store[i], st |-> "spawned", res |-> Nil]]])
  /\ UNCHANGED <<store, fs, lrud, pthd, lruf, pthf, touched, nmods, locks>>

\* one spawned goroutine (lines 353-360): rewrite the child's path and update
\* it in the store, then block sending the result on errc
\* the child is put directly under the new path
ChildPathFlat(child, oldpath, newpath) == Join(newpath, child.name)

ChildPath(child, oldpath, newpath) ==
  Join(newpath, SubSeq(child.path, Len(oldpath) + 2, Len(child.path)))

BulkChild(p, i, fails) ==
  /\ proc[p].pc = "m_collect"
  /\ i \in DOMAIN proc[p].children
  /\ proc[p].children[i].st = "spawned"
  /\ LET r == proc[p]
         c == r.children[i].doc
         child == [c EXCEPT !.path = ChildPath(c, r.oldpath, r.newpath)]
         e == IF ~HasPrefix(c.path, r.oldpath \o <<Sep>>) THEN "WrongBase"
              ELSE IF fails THEN "StoreError"
              ELSE UpdateErr(child)
     IN /\ store' = IF e = Nil THEN Updated(store, child) ELSE store
        /\ Step(p, [r EXCEPT !.children[i] = [doc |-> child, st |-> "sending", res |-> e]])
  /\ UNCHANGED <<fs, lrud, pthd, lruf, pthf, touched, nmods, locks>>

\* the error kept by the collecting loop is the first one received
KeepErrFirst(cur, e) == IF cur.err # Nil THEN cur ELSE e

\* the collecting loop keeps whatever it received last, nil included
KeepErrLatest(cur, e) == e

\* lines 364-366: if e := <-errc; e != nil { err = e }
\* (an error value is the pair of its kind and of the unit that sent it)
KeepErr(cur, e) == IF e.err # Nil THEN e ELSE cur

\* the loop stops at the first error received
CollectedOnError(r, i) ==
  \/ \A j \in DOMAIN r.children : j # i => r.children[j].st = "received"
  \/ r.children[i].res # Nil

\* line 363: for range children, one receive per spawned unit
Collected(r, i) == \A j \in DOMAIN r.children : j # i => r.children[j].st = "received"

\* the collecting loop (lines 363-369): receive one result; after the last
\* one return err to ModifyDirMetadata. rcv is the order of the receives.
BulkRecv(p, i) ==
  /\ proc[p].pc = "m_collect"
  /\ i \in DOMAIN proc[p].children
  /\ proc[p].children[i].st = "sending"
  /\ LET r == proc[p]
         kept == KeepErr([err |-> r.err, from |-> r.errfrom],
                         [err |-> r.children[i].res, from |-> i])
         r2 == [r EXCEPT !.children[i].st = "received", !.err = kept.err,
                         !.errfrom = kept.from, !.rcv = Append(@, i)]
     IN IF ~Collected(r, i) THEN Step(p, r2)
        ELSE IF kept.err # Nil THEN Step(p, Finish(r2, kept.err))
        ELSE Step(p, [r2 EXCEPT !.pc = "m_update"])
  /\ UNCHANGED <<store, fs, lrud, pthd, lruf, pthf, touched, nmods, locks>>

\* a failed update of the record moves the backend back
ModifyUpdateUndo(p, fails) ==
  /\ proc[p].pc = "m_update"
  /\ LET r == Called(proc[p], "update")
         e == IF fails THEN "StoreError" ELSE UpdateErr(r.newdoc)
     IN /\ store' = IF e = Nil THEN Updated(store, r.newdoc) ELSE store
        /\ fs' = IF e = Nil \/ r.oldpath = r.newpath THEN fs
                 ELSE Renamed(fs, r.newpath, r.oldpath)
        /\ Step(p, Finish(r, e))
  /\ UNCHANGED <<lrud, pthd, lruf, pthf, touched, nmods, locks>>

\* couchdb.UpdateDoc(c.db, newdoc) (line 336)
ModifyUpdate(p, fails) ==
  /\ proc[p].pc = "m_update"
  /\ LET r == Called(proc[p], "update")
         e == IF fails THEN "StoreError" ELSE UpdateErr(r.newdoc)
     IN /\ store' = IF e = Nil THEN Updated(store, r.newdoc) ELSE store
        /\ Step(p, Finish(r, e))
  /\ UNCHANGED <<fs, lrud, pthd, lruf, pthf, touched, nmods, locks>>

\* ----------------------------------------------------------- the system
\* One goroutine at a time, every input, every failure of the store and of
\* the backend.
Next ==
  \E p \in {"p1"} :
    \/ /\ Snapshot
       /\ \/ \E f \in BOOLEAN : CreateRootDirectory(p, f)
          \/ \E in \in CreateInputs, folderID \in {NoID} \cup DirIDs :
               CreateBegin(p, in.name, folderID, in.tags)
          \/ \E id \in {RootFolderID} \cup DirIDs, patch \in Patches : ModifyBegin(p, id, patch)
    \/ /\ UNCHANGED pre
       /\ \/ \E f \in BOOLEAN : CreateMkdir(p, f)
          \/ \E f \in BOOLEAN : CreateStore(p, f)
          \/ CreateRemove(p)
          \/ ModifyPath(p)
          \/ \E f \in BOOLEAN : SafeRenameCheck(p, f)
          \/ \E f \in BOOLEAN : SafeRenameMove(p, f)
          \/ \E f \in BOOLEAN : BulkFind(p, f)
          \/ \E i \in DirIDs, f \in BOOLEAN : BulkChild(p, i, f)
          \/ \E i \in DirIDs : BulkRecv(p, i)
          \/ \E f \in BOOLEAN : ModifyUpdate(p, f)
    \/ /\ Forget
       /\ Return(p)

Spec == Init /\ [][Next]_vars

\* Two goroutines, every interleaving of their steps, on an instance that
\* holds the root and the directories /a and /ab; the store and the backend
\* fail only as the interleaving makes them fail.
ConcPatches == [name : Opt(Names), folder : Opt({RootFolderID} \cup DirIDs), tags : Opt({<<"t">>})]

InitConc ==
  /\ store = [i \in {RootFolderID, 1, 2} |->
                IF i = RootFolderID THEN RootDoc
                ELSE [type |-> DirType, id |-> i, rev |-> 1,
                      name |-> IF i = 1 THEN <<"a">> ELSE <<"a", "b">>,
                      folder |-> RootFolderID,
                      path |-> IF i = 1 THEN <<Sep, "a">> ELSE <<Sep, "a", "b">>,
                      tags |-> <<>>]]
  /\ fs = {RootPath, <<Sep, "a">>, <<Sep, "a", "b">>}
  /\ lrud = <<>>
  /\ pthd = <<>>
  /\ lruf = <<>>
  /\ pthf = <<>>
  /\ touched = <<>>
  /\ proc = [p \in Procs |-> Idle]
  /\ nmods = 0
  /\ locks = Unlocked
  /\ pre = NoSnapshot

NextConc ==
  /\ UNCHANGED pre
  /\ \E p \in Procs :
       \/ \E name \in Names, folderID \in {NoID} \cup DirIDs : CreateBegin(p, name, folderID, <<>>)
       \/ CreateMkdir(p, FALSE)
       \/ CreateStore(p, FALSE)
       \/ \E id \in DirIDs, patch \in ConcPatches : ModifyBegin(p, id, patch)
       \/ ModifyPath(p)
       \/ SafeRenameCheck(p, FALSE)
       \/ SafeRenameMove(p, FALSE)
       \/ BulkFind(p, FALSE)
       \/ \E i \in DirIDs : BulkChild(p, i, FALSE)
       \/ \E i \in DirIDs : BulkRecv(p, i)
       \/ ModifyUpdate(p, FALSE)
       \/ Return(p)

SpecConc == InitConc /\ [][NextConc]_vars

\* ======================================================================
\* Properties of one call at a time (specification Spec)
\* ======================================================================
Result(p) == proc[p]

Untouched == store = pre.store /\ fs = pre.fs

\* C1: a ModifyDirMetadata whose new path starts with the old path followed
\* by the separator returns ErrForbiddenDocMove, and when it has returned the
\* backend tree and every record of the store are as they were when the call
\* began.
C1_ForbiddenMoveChangesNothing ==
  \A p \in Procs :
    (Result(p).pc = "done" /\ Result(p).op = "modify"
       /\ HasPrefix(Result(p).newpath, Result(p).oldpath \o <<Sep>>))
    => (Result(p).err = "ErrForbiddenDocMove" /\ Untouched)

\* a directory has been moved under one of its own descendants and refused
C1_Witness ==
  \E p \in Procs :
    /\ Result(p).pc = "done" /\ Result(p).err = "ErrForbiddenDocMove"
    /\ Result(p).newdoc.folder # Result(p).olddoc.id
    /\ Result(p).newdoc.folder # Result(p).olddoc.folder
    /\ Cardinality(DOMAIN store) = MaxDirs + 1

C9_ExistingTargetChangesNothing ==
  \A p \in Procs :
    LET r == Result(p) IN
    (r.pc = "done" /\ r.op = "modify" /\ r.newpath # <<>>) =>
      /\ (r.oldpath # r.newpath /\ ~HasPrefix(r.newpath, r.oldpath \o <<Sep>>) /\ r.newpath \in pre.fs)
           => r.err \in {"ErrExist", "StatError"}
      /\ r.err \in {"ErrExist", "StatError"}
           => ("rename" \notin r.calls /\ "update" \notin r.calls /\ Untouched)
      /\ r.err = "ErrExist" => r.newpath \in pre.fs

\* a directory with a child has been refused a new path that exists
C9_Witness ==
  \E p \in Procs :
    /\ Result(p).pc = "done" /\ Result(p).err = "ErrExist"
    /\ Result(p).newdoc.folder # Result(p).olddoc.folder
    /\ \E i \in DOMAIN store : store[i].folder = Result(p).olddoc.id

\* C10: a ModifyDirMetadata that leaves the derived path unchanged calls
\* neither Stat nor Rename nor the prefix query, returns what the update of
\* its own record returns, and leaves the backend and every other record of
\* the store unchanged; when it succeeds its own record holds the new values.
C10_SamePathOnlyOwnRecord ==
  \A p \in Procs :
    LET r == Result(p) IN
    (r.pc = "done" /\ r.op = "modify" /\ r.newpath # <<>> /\ r.oldpath = r.newpath) =>
      /\ r.calls \cap {"stat", "rename", "find"} = {}
      /\ r.err \in {Nil, "Conflict", "StoreError", "NotFound"}
      /\ fs = pre.fs
      /\ DOMAIN store = DOMAIN pre.store
      /\ \A i \in DOMAIN store : i # r.olddoc.id => store[i] = pre.store[i]
      /\ r.err # Nil => store = pre.store
      /\ r.err = Nil => store[r.olddoc.id] = [r.newdoc EXCEPT !.rev = r.olddoc.rev + 1]

\* the tags of a directory that has a child have been replaced
C10_Witness ==
  \E p \in Procs :
    /\ Result(p).pc = "done" /\ Result(p).op = "modify" /\ Result(p).err = Nil
    /\ Result(p).oldpath = Result(p).newpath
    /\ Result(p).newdoc.tags # Result(p).olddoc.tags
    /\ \E i \in DOMAIN store : store[i].folder = Result(p).olddoc.id

\* the strings of a list, and whether it holds none twice
Elems(q) == {q[i] : i \in 1..Len(q)}

NoDup(q) == Cardinality(Elems(q)) = Len(q)

\* C5 as stated: after a successful CreateDirectory, GetDirDoc on the
\* assigned identifier returns the name, parent and de-duplicated tags given,
\* and the path parent.Fullpath + "/" + name, also under the root.
C5_AsStated ==
  \A p \in Procs :
    LET r == Result(p) IN
    (r.pc = "done" /\ r.op = "create" /\ r.err = Nil) =>
      LET g == GetDirDoc(r.newdoc.id)
      IN /\ g.err = Nil
         /\ g.doc.path = store[g.doc.folder].path \o <<Sep>> \o r.newdoc.name

\* C5 (amended): after a successful CreateDirectory, GetDirDoc on the
\* assigned identifier returns the name and the parent given, the tags given
\* without repetition, and the path parent.Fullpath + "/" + name when the
\* parent is not the root and "/" + name when it is.
C5_CreateThenGet ==
  \A p \in Procs :
    LET r == Result(p) IN
    (r.pc = "done" /\ r.op = "create" /\ r.err = Nil) =>
      LET g == GetDirDoc(r.newdoc.id)
          parent == store[r.newdoc.folder]
      IN /\ g.err = Nil
         /\ g.doc.name = r.newdoc.name
         /\ g.doc.folder = r.newdoc.folder
         /\ g.doc.folder \in DOMAIN pre.store
         /\ Elems(g.doc.tags) = Elems(r.arg) /\ NoDup(g.doc.tags)
         /\ g.doc.path = IF parent.path = RootPath THEN <<Sep>> \o g.doc.name
                         ELSE parent.path \o <<Sep>> \o g.doc.name

\* a directory given a repeated tag has been created under the root, and one
\* has been created two levels down
C5_Witness ==
  \E p \in Procs :
    /\ Result(p).pc = "done" /\ Result(p).op = "create" /\ Result(p).err = Nil
    /\ Len(Result(p).arg) = 2 /\ Result(p).newdoc.folder = RootFolderID
    /\ \E i \in DOMAIN store : store[i].folder \notin {RootFolderID, NoID}

\* ======================================================================
\* Calls that all succeed, one at a time (specification SpecOK)
\* ======================================================================
NextOK ==
  \E p \in {"p1"} :
    \/ /\ Snapshot
       /\ \/ CreateRootDirectory(p, FALSE)
          \/ \E in \in CreateInputs, folderID \in {NoID} \cup DirIDs :
               CreateBegin(p, in.name, folderID, in.tags)
          \/ \E id \in {RootFolderID} \cup DirIDs, patch \in Patches : ModifyBegin(p, id, patch)
    \/ /\ UNCHANGED pre
       /\ \/ CreateMkdir(p, FALSE)
          \/ CreateStore(p, FALSE)
          \/ ModifyPath(p)
          \/ SafeRenameCheck(p, FALSE)
          \/ SafeRenameMove(p, FALSE)
          \/ BulkFind(p, FALSE)
          \/ \E i \in DirIDs : BulkChild(p, i, FALSE)
          \/ \E i \in DirIDs : BulkRecv(p, i)
          \/ ModifyUpdate(p, FALSE)
    \/ /\ Forget
       /\ Return(p)

SpecOK == Init /\ [][NextOK]_vars

Quiescent == \A p \in Procs : proc[p].pc \in {"idle", "done"}

\* C6: between calls, when the store and the backend have never failed, every
\* record but the root has a parent in the store and the path
\* join(path of the parent, name), and the root has the path "/".
C6_PathIsParentPathJoinName ==
  Quiescent =>
    \A i \in DOMAIN store :
      IF i = RootFolderID THEN store[i].path = <<Sep>>
      ELSE /\ store[i].folder \in DOMAIN store
           /\ store[i].path = Join(store[store[i].folder].path, store[i].name)

\* a directory holding a child and a grandchild has been moved and renamed
C6_Witness ==
  \E p \in Procs :
    /\ Result(p).pc = "done" /\ Result(p).op = "modify" /\ Result(p).err = Nil
    /\ Result(p).newdoc.name # Result(p).olddoc.name
    /\ \E i, j \in DOMAIN store :
         /\ store[i].folder = Result(p).olddoc.id
         /\ store[j].folder = i
         /\ IsUnder(store[j].path, Result(p).newpath)

\* ======================================================================
\* The local cache of directories (LocalCache) in front of the store
\* ======================================================================
\* LRUCache: the entries most recently used first, at most MaxEntries of them
LRUHas(l, key) == \E i \in 1..Len(l) : l[i].id = key

LRUValue(l, key) == l[CHOOSE i \in 1..Len(l) : l[i].id = key]

LRUWithout(l, key) == SelectSeq(l, LAMBDA d : d.id # key)

\* LRUCache.Get: the entry becomes the most recent one
LRUGet(l, key) == <<LRUValue(l, key)>> \o LRUWithout(l, key)

MapDel(m, k) == [x \in DOMAIN m \ {k} |-> m[x]]

MapPut(m, k, v) == [x \in DOMAIN m \cup {k} |-> IF x = k THEN v ELSE m[x]]

\* the caches are given room for one entry more than asked
NewLocalCacheOneMore(maxEntries) == [MaxEntries |-> maxEntries + 1]

\* NewLocalCache (lines 25-47): both LRUCache are built with
\* MaxEntries: maxEntries
NewLocalCache(maxEntries) == [MaxEntries |-> maxEntries]

\* LRUCache.Add: an entry already present is replaced and becomes the most
\* recent; a new one is put first and the oldest entry beyond MaxEntries is
\* evicted (MaxEntries 0: no limit)
LRUAdd(l, doc) ==
  LET l1 == <<doc>> \o LRUWithout(l, doc.id)
      cap == NewLocalCache(MaxEntries).MaxEntries
      over == ~LRUHas(l, doc.id) /\ cap # 0 /\ Len(l1) > cap
  IN [lru |-> IF over THEN SubSeq(l1, 1, Len(l1) - 1) ELSE l1,
      evicted |-> IF over THEN <<l1[Len(l1)]>> ELSE <<>>]

\* LRUCache.Remove: the entry leaves the cache as an evicted one does
LRURemove(l, key) ==
  [lru |-> LRUWithout(l, key),
   evicted |-> IF LRUHas(l, key) THEN <<LRUValue(l, key)>> ELSE <<>>]

\* the callback leaves the index as it is
dirEvictionNone(m, evicted) == m

\* dirEviction (lines 28-32): delete(cache.pthd, doc.Fullpath)
dirEviction(m, evicted) ==
  IF evicted = <<>> THEN m ELSE MapDel(m, evicted[1].path)

\* the binding of the entry cached under the same identifier is kept
touchDirKeepOld(l, m, doc) ==
  LET a == LRUAdd(l, doc)
  IN [lru |-> a.lru, pth |-> MapPut(dirEviction(m, a.evicted), doc.path, doc.id)]

\* touchDir (lines 250-259): drop the binding of the entry cached under the
\* same identifier, add the document, bind its path
touchDir(l, m, doc) ==
  LET m1 == IF LRUHas(l, doc.id) THEN MapDel(m, LRUValue(l, doc.id).path) ELSE m
      a == LRUAdd(l, doc)
  IN [lru |-> a.lru, pth |-> MapPut(dirEviction(m1, a.evicted), doc.path, doc.id)]

\* the entry stays in the cache when the store has refused the update
rmDirNone(l, m, doc) == [lru |-> l, pth |-> m]

\* rmDir (lines 273-277)
rmDir(l, m, doc) ==
  LET a == LRURemove(l, doc.id)
  IN [lru |-> a.lru, pth |-> dirEviction(m, a.evicted)]

\* the MaxEntries identifiers touched last, the last one first, after a touch
\* of id
Touch(t, id) ==
  LET t1 == <<id>> \o SelectSeq(t, LAMBDA x : x # id)
  IN IF Len(t1) > MaxEntries THEN SubSeq(t1, 1, MaxEntries) ELSE t1

\* dirCachedByPath: a binding whose entry is missing makes the type assertion
\* on the nil value panic
DirCachedByPath(name) ==
  IF name \notin DOMAIN pthd THEN [ok |-> FALSE, err |-> Nil, doc |-> NoDoc]
  ELSE IF ~LRUHas(lrud, pthd[name]) THEN [ok |-> TRUE, err |-> "panic", doc |-> NoDoc]
  ELSE [ok |-> TRUE, err |-> Nil, doc |-> LRUValue(lrud, pthd[name])]

\* LocalCache.DirByPath: what a call may return in the current state
DirByPathOutcomes(name) ==
  LET c == DirCachedByPath(name)
  IN IF c.ok THEN {[err |-> c.err, doc |-> c.doc]}
     ELSE IF FindByPath(name) = {} THEN {[err |-> "ErrNotExist", doc |-> NoDoc]}
     ELSE {[err |-> Nil, doc |-> d] : d \in FindByPath(name)}

\* GetDirDocFromPath: the same query without the cache
GetDirDocFromPathOutcomes(name) ==
  IF FindByPath(name) = {} THEN {[err |-> "ErrNotExist", doc |-> NoDoc]}
  ELSE {[err |-> Nil, doc |-> d] : d \in FindByPath(name)}

\* a call of LocalCache.DirByPath between two calls of the goroutine
DirByPath(name) ==
  /\ \A p \in Procs : proc[p].pc = "idle"
  /\ LET c == DirCachedByPath(name)
     IN IF c.ok
        THEN /\ c.err = Nil
             /\ lrud' = LRUGet(lrud, c.doc.id)
             /\ pthd' = pthd
             /\ touched' = Touch(touched, c.doc.id)
        ELSE \E d \in FindByPath(name) :
               /\ lrud' = touchDir(lrud, pthd, d).lru
               /\ pthd' = touchDir(lrud, pthd, d).pth
               /\ touched' = Touch(touched, d.id)
  /\ UNCHANGED <<store, fs, lruf, pthf, proc, nmods, locks, pre>>

\* a call of LocalCache.DirByID between two calls of the goroutine
DirByID(fileID) ==
  /\ \A p \in Procs : proc[p].pc = "idle"
  /\ IF LRUHas(lrud, fileID)
     THEN /\ lrud' = LRUGet(lrud, fileID)
          /\ pthd' = pthd
     ELSE /\ GetDirDoc(fileID).err = Nil
          /\ lrud' = touchDir(lrud, pthd, GetDirDoc(fileID).doc).lru
          /\ pthd' = touchDir(lrud, pthd, GetDirDoc(fileID).doc).pth
  /\ touched' = Touch(touched, fileID)
  /\ UNCHANGED <<store, fs, lruf, pthf, proc, nmods, locks, pre>>

CachePatches == [name : Opt(Names), folder : Opt({RootFolderID} \cup DirIDs), tags : {{}}]

LookupPaths == {store[i].path : i \in DOMAIN store} \cup DOMAIN pthd

\* One goroutine that creates and modifies directories with no failure of the
\* store or the backend, and looks directories up through the cache.
NextCache ==
  \/ \E p \in {"p1"} :
       \/ /\ Snapshot
          /\ \/ CreateRootDirectory(p, FALSE)
             \/ \E name \in Names, folderID \in {NoID} \cup DirIDs :
                  CreateBegin(p, name, folderID, <<>>)
             \/ \E id \in DirIDs, patch \in CachePatches : ModifyBegin(p, id, patch)
       \/ /\ UNCHANGED pre
          /\ \/ CreateMkdir(p, FALSE)
             \/ CreateStore(p, FALSE)
             \/ ModifyPath(p)
             \/ SafeRenameCheck(p, FALSE)
             \/ SafeRenameMove(p, FALSE)
             \/ BulkFind(p, FALSE)
             \/ \E i \in DirIDs : BulkChild(p, i, FALSE)
             \/ \E i \in DirIDs : BulkRecv(p, i)
             \/ ModifyUpdate(p, FALSE)
       \/ /\ Forget
          /\ Return(p)
  \/ \E name \in LookupPaths : DirByPath(name)
  \/ \E id \in DOMAIN store : DirByID(id)

SpecCache == Init /\ [][NextCache]_vars

\* The records that were at oldpath or below it when the call began
Moved(r) == {i \in DOMAIN pre.store :
               \/ pre.store[i].path = r.oldpath
               \/ HasPrefix(pre.store[i].path, r.oldpath \o <<Sep>>)}

\* Where a record that was at path old is after oldpath became newpath
MovedTo(r, old) == r.newpath \o SubSeq(old, Len(r.oldpath) + 1, Len(old))

SuccessfulMove(r) ==
  /\ r.pc = "done"
  /\ r.op = "modify"
  /\ r.err = Nil
  /\ r.oldpath # r.newpath

\* C2: after a modify that changed the path of a directory succeeded,
\* LocalCache.DirByPath resolves the directory and each of its descendants
\* at their new path, and finds nothing at any of their previous paths.
C2_SubtreeResolvableByPath ==
  \A p \in Procs :
    SuccessfulMove(Result(p)) =>
      \A i \in Moved(Result(p)) :
        /\ \A o \in DirByPathOutcomes(MovedTo(Result(p), pre.store[i].path)) :
             o.err = Nil /\ o.doc.id = i
        /\ \A o \in DirByPathOutcomes(pre.store[i].path) : o.err = "ErrNotExist"

\* The same statement for GetDirDocFromPath, which reads the store only
C2_SubtreeResolvableInStore ==
  \A p \in Procs :
    SuccessfulMove(Result(p)) =>
      \A i \in Moved(Result(p)) :
        /\ \A o \in GetDirDocFromPathOutcomes(MovedTo(Result(p), pre.store[i].path)) :
             o.err = Nil /\ o.doc.id = i
        /\ \A o \in GetDirDocFromPathOutcomes(pre.store[i].path) : o.err = "ErrNotExist"

C2_MovedWithDescendant ==
  \E p \in Procs : SuccessfulMove(Result(p)) /\ Cardinality(Moved(Result(p))) > 1

\* ----------------------------------------------------------------------
\* Two goroutines (SpecConc)
\* ----------------------------------------------------------------------
\* p and q have both returned from a modify of the same record, read at the
\* same revision, and one call began while the other was running
SameRecordRace(p, q) ==
  /\ p # q
  /\ Result(p).pc = "done" /\ Result(q).pc = "done"
  /\ Result(p).op = "modify" /\ Result(q).op = "modify"
  /\ Result(p).olddoc.id = Result(q).olddoc.id
  /\ Result(p).olddoc.rev = Result(q).olddoc.rev
  /\ (Result(p).over \/ Result(q).over)

InitialPaths == {RootPath, <<Sep, "a">>, <<Sep, "a", "b">>}

\* the call was refused for its input alone
Refused(r) ==
  \/ r.err \in {"ErrParentDoesNotExist", "ErrIllegalFilename", "ErrForbiddenDocMove"}
  \/ r.err = "ErrExist" /\ r.newpath \in InitialPaths

Won(p, q) ==
  /\ Result(p).err = Nil
  /\ store[Result(p).olddoc.id] = [Result(p).newdoc EXCEPT !.rev = Result(p).olddoc.rev + 1]

RECURSIVE Climb(_, _)
\* following folder from i reaches the root within n steps
Climb(i, n) ==
  IF i = RootFolderID THEN TRUE
  ELSE IF n = 0 \/ ~HasDoc(i) THEN FALSE
  ELSE Climb(store[i].folder, n - 1)

AllReturned == \A p \in Procs : proc[p].pc \in {"idle", "done"}

\* C7: once every call has returned, following folder from any directory
\* reaches the root without coming back to a directory already passed.
C7_ParentRelationAcyclic ==
  AllReturned => \A i \in DOMAIN store : Climb(i, Cardinality(DOMAIN store))

\* C8: once every call has returned, whether it succeeded or failed part-way,
\* no two records of the store have the same path.
C8_UniqueFullPath ==
  AllReturned => \A i, j \in DOMAIN store : store[i].path = store[j].path => i = j

\* ----------------------------------------------------------------------
\* Subtree propagation (bulkUpdateDocsPath), specification Spec
\* ----------------------------------------------------------------------
\* the units whose result has been received and is an error
Failing(r) == {i \in DOMAIN r.children :
                 r.children[i].st = "received" /\ r.children[i].res # Nil}

\* positions in the order of the receives at which an error was received
FailingAt(r) == {k \in 1..Len(r.rcv) : r.children[r.rcv[k]].res # Nil}

Least(S) == CHOOSE k \in S : \A m \in S : k <= m

Greatest(S) == CHOOSE k \in S : \A m \in S : m <= k

\* bulkUpdateDocsPath has spawned units and returned an error
BulkReturnedErr(r) ==
  /\ r.op = "modify" /\ r.pc = "done"
  /\ DOMAIN r.children # {}
  /\ "update" \notin r.calls

\* bulkUpdateDocsPath has spawned units and returned
BulkReturned(r) ==
  /\ r.op = "modify" /\ r.pc \in {"done", "m_update"}
  /\ DOMAIN r.children # {}

C12_ReturnsAfterEveryUnit ==
  \A p \in Procs :
    BulkReturned(Result(p)) =>
      /\ \A i \in DOMAIN Result(p).children : Result(p).children[i].st = "received"
      /\ Len(Result(p).rcv) = Cardinality(DOMAIN Result(p).children)

\* the first result received was an error and the second one was received too
C12_Witness ==
  \E p \in Procs :
    /\ BulkReturnedErr(Result(p))
    /\ Len(Result(p).rcv) = 2
    /\ 1 \in FailingAt(Result(p))

\* the record of unit i as the unit left it
Committed(r, i) ==
  /\ store[i].path = MovedTo(r, pre.store[i].path)
  /\ store[i].rev = pre.store[i].rev + 1

\* C13: when the update of a descendant fails, the operation returns an error
\* and every other descendant found has been updated, those whose update
\* succeeded being stored with their new path.
C13_OtherDescendantsCommitted ==
  \A p \in Procs :
    (BulkReturned(Result(p)) /\ Failing(Result(p)) # {}) =>
      /\ Result(p).pc = "done"
      /\ "update" \notin Result(p).calls
      /\ Result(p).err # Nil
      /\ \A i \in DOMAIN Result(p).children :
           /\ Result(p).children[i].st = "received"
           /\ Result(p).children[i].res = Nil => Committed(Result(p), i)
           /\ Result(p).children[i].res # Nil => store[i] = pre.store[i]

\* one descendant failed, was received first, and the other one is stored
\* with its new path
C13_Witness ==
  \E p \in Procs :
    /\ BulkReturnedErr(Result(p))
    /\ Len(Result(p).rcv) = 2
    /\ FailingAt(Result(p)) = {1}
    /\ Committed(Result(p), Result(p).rcv[2])

\* the backend rename of the call succeeded and the call failed afterwards
FailedAfterRename(r) ==
  /\ r.op = "modify" /\ r.pc = "done"
  /\ "find" \in r.calls
  /\ r.err # Nil

\* C14: when a modify fails after its backend rename, the backend keeps the
\* new path, the descendants updated keep their new path, and the record of
\* the directory is as it was.
C14_RenameNotUndone ==
  \A p \in Procs :
    FailedAfterRename(Result(p)) =>
      /\ Result(p).newpath \in fs
      /\ Result(p).oldpath \notin fs
      /\ Cardinality(fs) = Cardinality(pre.fs)
      /\ \A i \in DOMAIN Result(p).children :
           Result(p).children[i].res = Nil /\ Result(p).children[i].st # "spawned"
             => Committed(Result(p), i)
      /\ store[Result(p).olddoc.id] = pre.store[Result(p).olddoc.id]

\* the update of the record failed after a descendant was updated
C14_Witness ==
  \E p \in Procs :
    /\ FailedAfterRename(Result(p))
    /\ "update" \in Result(p).calls
    /\ DOMAIN Result(p).children # {}

\* ======================================================================
\* Two goroutines, one modify each, on an instance that holds /, /a, /a/a
\* and /ab (specification SpecPair)
\* ======================================================================
PairNames == {<<"b">>, <<"c">>}

PairPatches == [name : Opt(PairNames), folder : Opt({RootFolderID} \cup DirIDs), tags : {{}}]

PairDir(i, name, folderID, fullpath) ==
  [type |-> DirType, id |-> i, rev |-> 1, name |-> name, folder |-> folderID,
   path |-> fullpath, tags |-> <<>>]

\* the instance in one of two shapes: /ab beside /a, or /a/a/ab under /a/a
PairShapes == {"apart", "chain"}

PairStore(shape) ==
  [i \in {RootFolderID, 1, 2, 3} |->
     IF i = RootFolderID THEN RootDoc
     ELSE IF i = 1 THEN PairDir(1, <<"a">>, RootFolderID, <<Sep, "a">>)
     ELSE IF i = 3 THEN PairDir(3, <<"a">>, 1, <<Sep, "a", Sep, "a">>)
     ELSE IF shape = "apart" THEN PairDir(2, <<"a", "b">>, RootFolderID, <<Sep, "a", "b">>)
     ELSE PairDir(2, <<"a", "b">>, 3, <<Sep, "a", Sep, "a", Sep, "a", "b">>)]

PairFs(shape) == {PairStore(shape)[i].path : i \in DOMAIN PairStore(shape)}

\* pre keeps the instance as it is before the two calls
InitPair ==
  /\ \E shape \in PairShapes :
       /\ store = PairStore(shape)
       /\ fs = PairFs(shape)
       /\ pre = [store |-> PairStore(shape), fs |-> PairFs(shape)]
  /\ lrud = <<>>
  /\ pthd = <<>>
  /\ lruf = <<>>
  /\ pthf = <<>>
  /\ touched = <<>>
  /\ proc = [p \in Procs |-> Idle]
  /\ nmods = 0
  /\ locks = Unlocked

NextPair ==
  /\ UNCHANGED pre
  /\ \E p \in Procs :
       \/ \E id \in DirIDs, patch \in PairPatches : ModifyBegin(p, id, patch)
       \/ ModifyPath(p)
       \/ SafeRenameCheck(p, FALSE)
       \/ SafeRenameMove(p, FALSE)
       \/ BulkFind(p, FALSE)
       \/ \E i \in DirIDs : BulkChild(p, i, FALSE)
       \/ \E i \in DirIDs : BulkRecv(p, i)
       \/ ModifyUpdate(p, FALSE)

SpecPair == InitPair /\ [][NextPair]_vars

\* a is b or an ancestor of b
PathPrefix(a, b) == a = b \/ IsUnder(b, a)

\* the renames of r1 and r2 touch disjoint subtrees
Disjoint(r1, r2) ==
  \A x \in {r1.oldpath, r1.newpath}, y \in {r2.oldpath, r2.newpath} :
    ~PathPrefix(x, y) /\ ~PathPrefix(y, x)

\* r is a finished rename of the pair whose target was free at the start
PairRename(r) ==
  /\ r.op = "modify" /\ r.pc = "done"
  /\ r.oldpath # r.newpath
  /\ r.newpath \notin pre.fs
  /\ ~Refused(r)

\* the record i after the rename r alone, from the record d
RenamedDoc(r, d) ==
  IF d.id = r.olddoc.id THEN [r.newdoc EXCEPT !.rev = d.rev + 1]
  ELSE IF HasPrefix(d.path, r.oldpath \o <<Sep>>)
       THEN [d EXCEPT !.path = MovedTo(r, d.path), !.rev = d.rev + 1]
       ELSE d

\* the store and the backend after r1 then r2, one after the other
AfterBoth(r1, r2) ==
  [store |-> [i \in DOMAIN pre.store |-> RenamedDoc(r2, RenamedDoc(r1, pre.store[i]))],
   fs |-> Renamed(Renamed(pre.fs, r1.oldpath, r1.newpath), r2.oldpath, r2.newpath)]

\* C15: two renames on disjoint subtrees both succeed, whether one ran after
\* the other or their steps interleaved, and the store and the backend are
\* the same in all cases: those of the two renames run in either order.
C15_DisjointRenamesCommute ==
  \A p, q \in Procs :
    (p # q /\ PairRename(Result(p)) /\ PairRename(Result(q))
       /\ Disjoint(Result(p), Result(q))) =>
      /\ Result(p).err = Nil /\ Result(q).err = Nil
      /\ store = AfterBoth(Result(p), Result(q)).store
      /\ fs = AfterBoth(Result(p), Result(q)).fs
      /\ AfterBoth(Result(p), Result(q)) = AfterBoth(Result(q), Result(p))

\* /a, which holds /a/a, and /ab have been renamed by calls that overlapped
C15_Witness ==
  \E p, q \in Procs :
    /\ p # q /\ PairRename(Result(p)) /\ PairRename(Result(q))
    /\ Disjoint(Result(p), Result(q))
    /\ Result(q).over
    /\ Result(p).olddoc.id = 1 /\ DOMAIN Result(p).children # {}
    /\ Result(q).olddoc.id = 2 /\ Result(q).olddoc.folder = RootFolderID

\* the call r has sent an update of record i to the store
Wrote(r, i) ==
  \/ i = r.olddoc.id /\ "update" \in r.calls
  \/ i \in DOMAIN r.children /\ r.children[i].st # "spawned"

\* the revision of record i that r presented
WroteRev(r, i) == IF i = r.olddoc.id THEN r.olddoc.rev ELSE r.children[i].doc.rev

\* the error of r's update of record i
WroteErr(r, i) == IF i = r.olddoc.id THEN r.err ELSE r.children[i].res

\* the document r sent for record i
WroteDoc(r, i) == IF i = r.olddoc.id THEN r.newdoc ELSE r.children[i].doc

\* two finished renames, record i under the old path of p's, both having
\* sent an update of i that presented the same revision
SameDescendantRace(p, q, i) ==
  /\ p # q
  /\ Result(p).op = "modify" /\ Result(p).pc = "done"
  /\ Result(q).op = "modify" /\ Result(q).pc = "done"
  /\ Result(p).oldpath # Result(p).newpath
  /\ Result(q).oldpath # Result(q).newpath
  /\ i \in DOMAIN Result(p).children
  /\ Wrote(Result(p), i) /\ Wrote(Result(q), i)
  /\ WroteRev(Result(p), i) = WroteRev(Result(q), i)

\* w won the write of record i against l
WonWrite(w, l, i) ==
  /\ WroteErr(w, i) = Nil
  /\ WroteErr(l, i) = "Conflict"
  /\ l.err = "Conflict"
  /\ store[i] = [WroteDoc(w, i) EXCEPT !.rev = WroteRev(w, i) + 1]

\* C16: when two overlapping renames have both sent an update of the same
\* descendant record presenting the same revision, one update succeeded, the
\* other returned the revision conflict, the call that lost returned the
\* revision conflict, and the record is as the winner wrote it.
C16_OneWriteWinsLoserConflict ==
  \A p, q \in Procs : \A i \in DOMAIN store :
    SameDescendantRace(p, q, i) =>
      \/ WonWrite(Result(p), Result(q), i)
      \/ WonWrite(Result(q), Result(p), i)

\* /a was renamed while /a/a was, both propagations wrote /a/a/ab, and the
\* rename of /a lost
C16_Witness ==
  \E p, q \in Procs : \E i \in DOMAIN store :
    /\ SameDescendantRace(p, q, i)
    /\ WonWrite(Result(q), Result(p), i)
    /\ i \in DOMAIN Result(q).children
    /\ Cardinality(DOMAIN Result(p).children) = 2

\* ======================================================================
\* The operations of LocalCache, called one at a time (specifications
\* SpecLocal, with failures of the store, and SpecLRU, without)
\* ======================================================================
FileType == "file"

\* genFilePathID (lines 329-331): the key of a file in pthf
genFilePathID(folderID, name) == <<folderID, name>>

\* the callback leaves the index of the files as it is
fileEvictionNone(m, evicted) == m

\* fileEviction (lines 34-38)
fileEviction(m, evicted) ==
  IF evicted = <<>> THEN m
  ELSE MapDel(m, genFilePathID(evicted[1].folder, evicted[1].name))

\* touchFile (lines 261-271)
touchFile(l, m, doc) ==
  LET m1 == IF LRUHas(l, doc.id)
            THEN MapDel(m, genFilePathID(LRUValue(l, doc.id).folder, LRUValue(l, doc.id).name))
            ELSE m
      a == LRUAdd(l, doc)
  IN [lru |-> a.lru,
      pth |-> MapPut(fileEviction(m1, a.evicted), genFilePathID(doc.folder, doc.name), doc.id)]

\* rmFile (lines 279-283)
rmFile(l, m, doc) ==
  LET a == LRURemove(l, doc.id)
  IN [lru |-> a.lru, pth |-> fileEviction(m, a.evicted)]

\* the cache of the directories as one value
DirCache == [lru |-> lrud, pth |-> pthd, touched |-> touched]

\* the document is cached before its type has been checked
DirByIDInUnchecked(c, fileID) ==
  IF LRUHas(c.lru, fileID)
  THEN [err |-> Nil, doc |-> LRUValue(c.lru, fileID),
        c |-> [c EXCEPT !.lru = LRUGet(c.lru, fileID), !.touched = Touch(c.touched, fileID)]]
  ELSE IF ~HasDoc(fileID)
  THEN [err |-> GetDirDoc(fileID).err, doc |-> NoDoc, c |-> c]
  ELSE [err |-> GetDirDoc(fileID).err, doc |-> GetDirDoc(fileID).doc,
        c |-> [lru |-> touchDir(c.lru, c.pth, store[fileID]).lru,
               pth |-> touchDir(c.lru, c.pth, store[fileID]).pth,
               touched |-> Touch(c.touched, fileID)]]

\* LocalCache.DirByID on the cache c: the error, the document, the cache after
DirByIDIn(c, fileID) ==
  IF LRUHas(c.lru, fileID)
  THEN [err |-> Nil, doc |-> LRUValue(c.lru, fileID),
        c |-> [c EXCEPT !.lru = LRUGet(c.lru, fileID), !.touched = Touch(c.touched, fileID)]]
  ELSE IF GetDirDoc(fileID).err # Nil
  THEN [err |-> GetDirDoc(fileID).err, doc |-> NoDoc, c |-> c]
  ELSE [err |-> Nil, doc |-> GetDirDoc(fileID).doc,
        c |-> [lru |-> touchDir(c.lru, c.pth, GetDirDoc(fileID).doc).lru,
               pth |-> touchDir(c.lru, c.pth, GetDirDoc(fileID).doc).pth,
               touched |-> Touch(c.touched, fileID)]]

\* doc.calcPath: the path already set, or the path of the parent, resolved
\* by its identifier through the cache, joined with the name
calcPath(c, doc) ==
  IF doc.path # <<>> THEN [err |-> Nil, doc |-> doc, c |-> c]
  ELSE LET r == DirByIDIn(c, doc.folder)
       IN IF r.err # Nil THEN [err |-> r.err, doc |-> doc, c |-> r.c]
          ELSE [err |-> Nil, doc |-> [doc EXCEPT !.path = Join(r.doc.path, doc.name)], c |-> r.c]

\* the store and the caches when a call of LocalCache begins
SnapshotCache ==
  pre' = [store |-> store, fs |-> fs, lrud |-> lrud, pthd |-> pthd,
          lruf |-> lruf, pthf |-> pthf]

\* the result of a call: the document given, as the call left it, and the error
Returned(p, opname, olddoc, doc, e) ==
  Step(p, [Idle EXCEPT !.pc = "done", !.op = opname, !.olddoc = olddoc, !.newdoc = doc, !.err = e])

SetDirCache(c) ==
  /\ lrud' = c.lru
  /\ pthd' = c.pth
  /\ touched' = c.touched

\* the entry is cached before the store has accepted it
CreateDirEager(p, name, folderID, fails) ==
  /\ proc[p].pc = "idle"
  /\ FreeIDs # {}
  /\ LET doc0 == NewDirDoc(name, folderID, <<>>)
         cp == calcPath(DirCache, doc0)
         doc == [cp.doc EXCEPT !.id = NextID, !.rev = 1]
         t == touchDir(cp.c.lru, cp.c.pth, doc)
     IN /\ SetDirCache([lru |-> t.lru, pth |-> t.pth, touched |-> Touch(cp.c.touched, doc.id)])
        /\ IF cp.err # Nil \/ fails
           THEN store' = store /\ Returned(p, "CreateDir", doc0, doc, IF cp.err # Nil THEN cp.err ELSE "StoreError")
           ELSE store' = Created(store, doc) /\ Returned(p, "CreateDir", doc0, doc, Nil)
  /\ SnapshotCache
  /\ UNCHANGED <<fs, lruf, pthf, nmods, locks>>

\* LocalCache.CreateDir (lines 49-60)
CreateDir(p, name, folderID, fails) ==
  /\ proc[p].pc = "idle"
  /\ FreeIDs # {}
  /\ LET doc0 == NewDirDoc(name, folderID, <<>>)
         cp == calcPath(DirCache, doc0)
         doc == [cp.doc EXCEPT !.id = NextID, !.rev = 1]
         t == touchDir(cp.c.lru, cp.c.pth, doc)
     IN IF cp.err # Nil
        THEN /\ SetDirCache(cp.c)
             /\ store' = store
             /\ Returned(p, "CreateDir", doc0, cp.doc, cp.err)
        ELSE IF fails
        THEN /\ SetDirCache(cp.c)
             /\ store' = store
             /\ Returned(p, "CreateDir", doc0, cp.doc, "StoreError")
        ELSE /\ SetDirCache([lru |-> t.lru, pth |-> t.pth, touched |-> Touch(cp.c.touched, doc.id)])
             /\ store' = Created(store, doc)
             /\ Returned(p, "CreateDir", doc0, doc, Nil)
  /\ SnapshotCache
  /\ UNCHANGED <<fs, lruf, pthf, nmods, locks>>

\* LocalCache.UpdateDir (lines 62-74). The document given is the stored one
\* with a new name and a new parent, its path to be computed again; stale:
\* the caller presents a revision that is not the stored one.
UpdateDir(p, id, name, folderID, stale) ==
  /\ proc[p].pc = "idle"
  /\ nmods < MaxMods
  /\ id \in DOMAIN store /\ id # RootFolderID /\ store[id].type = DirType
  /\ folderID # id
  /\ LET doc0 == [store[id] EXCEPT !.name = name, !.folder = folderID, !.path = <<>>,
                                   !.rev = IF stale THEN 0 ELSE @]
         cp == calcPath(DirCache, doc0)
         e == UpdateErr(cp.doc)
         r == rmDir(cp.c.lru, cp.c.pth, cp.doc)
         t == touchDir(cp.c.lru, cp.c.pth, Updated(store, cp.doc)[id])
     IN IF cp.err # Nil
        THEN /\ SetDirCache(cp.c)
             /\ store' = store
             /\ Returned(p, "UpdateDir", store[id], cp.doc, cp.err)
        ELSE IF e # Nil
        THEN /\ SetDirCache([lru |-> r.lru, pth |-> r.pth, touched |-> cp.c.touched])
             /\ store' = store
             /\ Returned(p, "UpdateDir", store[id], cp.doc, e)
        ELSE /\ SetDirCache([lru |-> t.lru, pth |-> t.pth, touched |-> Touch(cp.c.touched, id)])
             /\ store' = Updated(store, cp.doc)
             /\ Returned(p, "UpdateDir", store[id], Updated(store, cp.doc)[id], Nil)
  /\ nmods' = nmods + 1
  /\ SnapshotCache
  /\ UNCHANGED <<fs, lruf, pthf, locks>>

NewFileDoc(name, folderID) ==
  [type |-> FileType, id |-> NoID, rev |-> 0, name |-> name, folder |-> folderID,
   path |-> <<>>, tags |-> <<>>]

\* the file is cached before the store has accepted it
CreateFileEager(p, name, folderID, fails) ==
  /\ proc[p].pc = "idle"
  /\ FreeIDs # {}
  /\ GetDirDoc(folderID).err = Nil
  /\ LET doc0 == NewFileDoc(name, folderID)
         doc == [doc0 EXCEPT !.id = NextID, !.rev = 1]
         t == touchFile(lruf, pthf, doc)
     IN /\ lruf' = t.lru
        /\ pthf' = t.pth
        /\ IF fails
           THEN store' = store /\ Returned(p, "CreateFile", doc0, doc, "StoreError")
           ELSE store' = Created(store, doc) /\ Returned(p, "CreateFile", doc0, doc, Nil)
  /\ SnapshotCache
  /\ UNCHANGED <<fs, lrud, pthd, touched, nmods, locks>>

\* LocalCache.CreateFile (lines 143-150), of a file in a directory that exists
CreateFile(p, name, folderID, fails) ==
  /\ proc[p].pc = "idle"
  /\ FreeIDs # {}
  /\ GetDirDoc(folderID).err = Nil
  /\ LET doc0 == NewFileDoc(name, folderID)
         doc == [doc0 EXCEPT !.id = NextID, !.rev = 1]
         t == touchFile(lruf, pthf, doc)
     IN IF fails
        THEN /\ UNCHANGED <<store, lruf, pthf>>
             /\ Returned(p, "CreateFile", doc0, doc0, "StoreError")
        ELSE /\ store' = Created(store, doc)
             /\ lruf' = t.lru
             /\ pthf' = t.pth
             /\ Returned(p, "CreateFile", doc0, doc, Nil)
  /\ SnapshotCache
  /\ UNCHANGED <<fs, lrud, pthd, touched, nmods, locks>>

\* LocalCache.UpdateFile (lines 152-160)
UpdateFile(p, id, name, stale) ==
  /\ proc[p].pc = "idle"
  /\ nmods < MaxMods
  /\ id \in DOMAIN store /\ store[id].type = FileType
  /\ LET doc == [store[id] EXCEPT !.name = name, !.rev = IF stale THEN 0 ELSE @]
         e == UpdateErr(doc)
         r == rmFile(lruf, pthf, doc)
         t == touchFile(lruf, pthf, Updated(store, doc)[id])
     IN IF e # Nil
        THEN /\ lruf' = r.lru
             /\ pthf' = r.pth
             /\ store' = store
             /\ Returned(p, "UpdateFile", store[id], doc, e)
        ELSE /\ lruf' = t.lru
             /\ pthf' = t.pth
             /\ store' = Updated(store, doc)
             /\ Returned(p, "UpdateFile", store[id], Updated(store, doc)[id], Nil)
  /\ nmods' = nmods + 1
  /\ SnapshotCache
  /\ UNCHANGED <<fs, lrud, pthd, touched, locks>>

\* LocalCache.FileByID (lines 162-179): a hit makes the entry the most recent
\* one; a miss reads the store and caches nothing
FileByID(fileID) ==
  /\ \A p \in Procs : proc[p].pc = "idle"
  /\ LRUHas(lruf, fileID)
  /\ lruf' = LRUGet(lruf, fileID)
  /\ UNCHANGED <<store, fs, lrud, pthd, pthf, touched, proc, nmods, locks, pre>>

\* LocalCache.DirOrFileByID (lines 220-240): the two caches are read, nothing
\* is cached on a miss
DirOrFileByID(fileID) ==
  /\ \A p \in Procs : proc[p].pc = "idle"
  /\ IF LRUHas(lrud, fileID)
     THEN /\ lrud' = LRUGet(lrud, fileID)
          /\ touched' = Touch(touched, fileID)
          /\ UNCHANGED lruf
     ELSE /\ LRUHas(lruf, fileID)
          /\ lruf' = LRUGet(lruf, fileID)
          /\ UNCHANGED <<lrud, touched>>
  /\ UNCHANGED <<store, fs, pthd, pthf, proc, nmods, locks, pre>>

\* fileCachedByFolderID (lines 317-327) and the rest of FileByPath (lines
\* 190-217): the caches of the files a call may leave
FileLookup(folderID, filename) ==
  LET key == genFilePathID(folderID, filename)
      found == {i \in DOMAIN store : /\ store[i].folder = folderID
                                     /\ store[i].name = filename
                                     /\ store[i].type = FileType}
  IN IF key \in DOMAIN pthf
     THEN IF LRUHas(lruf, pthf[key])
          THEN {[lru |-> LRUGet(lruf, pthf[key]), pth |-> pthf]}
          ELSE {[lru |-> lruf, pth |-> pthf]}
     ELSE IF found = {} THEN {[lru |-> lruf, pth |-> pthf]}
     ELSE {touchFile(lruf, pthf, store[i]) : i \in found}

\* LocalCache.FileByPath (lines 181-218) of the file filename in the directory
\* at dirpath
FileByPath(dirpath, filename) ==
  /\ \A p \in Procs : proc[p].pc = "idle"
  /\ LET c == DirCachedByPath(dirpath)
     IN IF c.ok
        THEN /\ c.err = Nil
             /\ lrud' = LRUGet(lrud, c.doc.id)
             /\ pthd' = pthd
             /\ touched' = Touch(touched, c.doc.id)
             /\ \E f \in FileLookup(c.doc.id, filename) : lruf' = f.lru /\ pthf' = f.pth
        ELSE \E d \in FindByPath(dirpath) :
               /\ lrud' = touchDir(lrud, pthd, d).lru
               /\ pthd' = touchDir(lrud, pthd, d).pth
               /\ touched' = Touch(touched, d.id)
               /\ \E f \in FileLookup(d.id, filename) : lruf' = f.lru /\ pthf' = f.pth
  /\ UNCHANGED <<store, fs, proc, nmods, locks, pre>>

\* the sequences that list every element of S once
Orders(S) == {q \in [1..Cardinality(S) -> S] : \A i, j \in 1..Cardinality(S) : q[i] = q[j] => i = j}

\* the loop of DirFiles (lines 128-138) over the documents found
RECURSIVE TouchAll(_, _)
TouchAll(c, docs) ==
  IF docs = <<>> THEN c
  ELSE LET d == Head(docs)
       IN IF d.type = FileType
          THEN TouchAll([c EXCEPT !.lruf = touchFile(c.lruf, c.pthf, d).lru,
                                  !.pthf = touchFile(c.lruf, c.pthf, d).pth], Tail(docs))
          ELSE TouchAll([c EXCEPT !.lrud = touchDir(c.lrud, c.pthd, d).lru,
                                  !.pthd = touchDir(c.lrud, c.pthd, d).pth,
                                  !.touched = Touch(c.touched, d.id)], Tail(docs))

\* LocalCache.DirFiles (lines 119-141): the children of the directory, in the
\* order the store returns them
DirFiles(id) ==
  /\ \A p \in Procs : proc[p].pc = "idle"
  /\ id \in DOMAIN store /\ store[id].type = DirType
  /\ \E q \in Orders({i \in DOMAIN store : store[i].folder = id}) :
       LET c == TouchAll([lrud |-> lrud, pthd |-> pthd, touched |-> touched,
                          lruf |-> lruf, pthf |-> pthf],
                         [k \in DOMAIN q |-> store[q[k]]])
       IN /\ q # <<>>
          /\ lrud' = c.lrud /\ pthd' = c.pthd /\ touched' = c.touched
          /\ lruf' = c.lruf /\ pthf' = c.pthf
  /\ UNCHANGED <<store, fs, proc, nmods, locks, pre>>

\* the names and parents the calls of SpecLocal are given
LocalNames == {<<"a">>, <<"b">>}

LocalPaths == {RootPath, <<Sep, "a">>, <<Sep, "b">>, <<Sep, "a", Sep, "b">>, <<Sep, "b", Sep, "a">>}

\* the instance after CreateRootDirectory, the caches empty
InitLocal ==
  /\ store = [i \in {RootFolderID} |-> RootDoc]
  /\ fs = {RootPath}
  /\ lrud = <<>>
  /\ pthd = <<>>
  /\ lruf = <<>>
  /\ pthf = <<>>
  /\ touched = <<>>
  /\ proc = [p \in Procs |-> Idle]
  /\ nmods = 0
  /\ locks = Unlocked
  /\ pre = NoSnapshot

ReturnLocal(p) ==
  /\ Return(p)
  /\ Forget

NextLocal ==
  \E p \in {"p1"} :
    \/ \E name \in LocalNames, f \in {RootFolderID} \cup DirIDs, fails \in BOOLEAN :
         CreateDir(p, name, f, fails)
    \/ \E id \in DirIDs, name \in LocalNames, stale \in BOOLEAN :
         UpdateDir(p, id, name, store[id].folder, stale)
    \/ \E name \in LocalNames, f \in {RootFolderID} \cup DirIDs, fails \in BOOLEAN :
         CreateFile(p, name, f, fails)
    \/ \E id \in DirIDs, name \in LocalNames, stale \in BOOLEAN : UpdateFile(p, id, name, stale)
    \/ \E id \in {RootFolderID} \cup DirIDs : DirByID(id)
    \/ \E name \in LocalPaths : DirByPath(name)
    \/ \E id \in {RootFolderID} \cup DirIDs : DirFiles(id)
    \/ \E id \in DirIDs : FileByID(id)
    \/ \E id \in {RootFolderID} \cup DirIDs : DirOrFileByID(id)
    \/ \E name \in LocalPaths, f \in LocalNames : FileByPath(name, f)
    \/ ReturnLocal(p)

SpecLocal == InitLocal /\ [][NextLocal]_vars

\* The same calls when the store accepts every write: no entry is removed
\* from the caches but by the eviction of the oldest one.
NextLRU ==
  \E p \in {"p1"} :
    \/ \E name \in LocalNames, f \in {RootFolderID} \cup DirIDs : CreateDir(p, name, f, FALSE)
    \/ \E id \in DirIDs, name \in LocalNames : UpdateDir(p, id, name, store[id].folder, FALSE)
    \/ \E name \in LocalNames, f \in {RootFolderID} \cup DirIDs : CreateFile(p, name, f, FALSE)
    \/ \E id \in DirIDs, name \in LocalNames : UpdateFile(p, id, name, FALSE)
    \/ \E id \in {RootFolderID} \cup DirIDs : DirByID(id)
    \/ \E name \in LocalPaths : DirByPath(name)
    \/ \E id \in {RootFolderID} \cup DirIDs : DirFiles(id)
    \/ \E id \in DirIDs : FileByID(id)
    \/ \E id \in {RootFolderID} \cup DirIDs : DirOrFileByID(id)
    \/ \E name \in LocalPaths, f \in LocalNames : FileByPath(name, f)
    \/ ReturnLocal(p)

SpecLRU == InitLocal /\ [][NextLRU]_vars

\* ----------------------------------------------------------------- C17
\* the identifiers of the entries of an LRUCache, the most recent first
Resident(l) == [i \in DOMAIN l |-> l[i].id]

\* C17: the cache of the directories never holds more than MaxEntries
\* entries; the entries it holds are the MaxEntries directories touched last,
\* and a directory that is not one of them is not found in the cache by its
\* identifier, so that DirByID returns the record of the store.
C17_LRUBound ==
  /\ Len(lrud) <= MaxEntries
  /\ Resident(lrud) = touched
  /\ \A id \in DOMAIN store :
       (store[id].type = DirType /\ id \notin Elems(touched)) =>
         /\ ~LRUHas(lrud, id)
         /\ DirByIDIn(DirCache, id).doc = store[id]

\* more directories than MaxEntries have been put in the cache: the cache is
\* full and a directory created through it is not resident any more
C17_Witness ==
  /\ Len(lrud) = MaxEntries
  /\ Cardinality({id \in DOMAIN store : store[id].type = DirType /\ id # RootFolderID}) > MaxEntries
  /\ \E id \in DOMAIN store :
       store[id].type = DirType /\ id # RootFolderID /\ ~LRUHas(lrud, id)

\* ----------------------------------------------------------------- C18
\* C18: in each of the two caches every binding of the index (path -> id in
\* pthd, (folder, name) -> id in pthf) names an entry that is resident in the
\* LRUCache, and that entry is the record with that path, or that folder and
\* name: a lookup by path never finds a missing or a different record.
C18_BindingsResident ==
  /\ \A name \in DOMAIN pthd :
       /\ LRUHas(lrud, pthd[name])
       /\ LRUValue(lrud, pthd[name]).path = name
       /\ DirCachedByPath(name).err = Nil
  /\ \A key \in DOMAIN pthf :
       /\ LRUHas(lruf, pthf[key])
       /\ genFilePathID(LRUValue(lruf, pthf[key]).folder, LRUValue(lruf, pthf[key]).name) = key

\* a directory created through the full cache has been evicted, or removed
\* after a refused update, and its path is not bound any more
C18_Witness ==
  /\ Len(lrud) = MaxEntries
  /\ \E id \in DOMAIN store :
       /\ store[id].type = DirType
       /\ id # RootFolderID
       /\ ~LRUHas(lrud, id)
       /\ store[id].path \notin DOMAIN pthd
  /\ proc["p1"].op = "UpdateDir"
  /\ proc["p1"].err = "Conflict"
  /\ LRUHas(pre.lrud, proc["p1"].newdoc.id)
  /\ ~LRUHas(lrud, proc["p1"].newdoc.id)

\* ----------------------------------------------------------------- C19
\* a call of CreateDir or CreateFile that returned an error
CreateFailed(r) == r.pc = "done" /\ r.op \in {"CreateDir", "CreateFile"} /\ r.err # Nil

\* C19: when CreateDir or CreateFile returns an error, the store is as it
\* was and the caches hold what they held when the call began, and at most,
\* in the cache of the directories, the parent that calcPath looked up: the
\* document given is in neither LRUCache and under no binding. At any time
\* every cached entry is a document the store holds.
C19_CachedOnlyOnceStored ==
  /\ \A i \in DOMAIN lrud : lrud[i].id \in DOMAIN store
  /\ \A i \in DOMAIN lruf : lruf[i].id \in DOMAIN store
  /\ \A p \in Procs :
       CreateFailed(proc[p]) =>
         /\ store = pre.store
         /\ lruf = pre.lruf
         /\ pthf = pre.pthf
         /\ \A i \in DOMAIN lrud :
              lrud[i] \in Elems(pre.lrud) \/ lrud[i] = GetDirDoc(proc[p].olddoc.folder).doc
         /\ \A name \in DOMAIN pthd :
              \/ name \in DOMAIN pre.pthd /\ pre.pthd[name] = pthd[name]
              \/ pthd[name] = proc[p].olddoc.folder /\ GetDirDoc(pthd[name]).doc.path = name

\* the store refused the directory after calcPath had put its parent in the
\* cache
C19_Witness ==
  /\ CreateFailed(proc["p1"])
  /\ proc["p1"].op = "CreateDir"
  /\ proc["p1"].err = "StoreError"
  /\ pre.lrud # <<>>
  /\ lrud # pre.lrud
  /\ ~LRUHas(pre.lrud, proc["p1"].olddoc.folder)

\* ----------------------------------------------------------------- C20
\* a call of UpdateDir that the store refused
UpdateRefused(r) ==
  r.pc = "done" /\ r.op = "UpdateDir" /\ r.err \in {"Conflict", "NotFound", "StoreError"}

\* C20: when UpdateDir returns the error of the store, no entry is cached
\* under the identifier of the document: DirByID does not find it in the
\* cache and returns the record of the store, and the path the entry was
\* cached under is bound to no entry or to another one.
C20_FailedUpdateEvicts ==
  \A p \in Procs :
    UpdateRefused(proc[p]) =>
      LET id == proc[p].newdoc.id
      IN /\ ~LRUHas(lrud, id)
         /\ DirByIDIn(DirCache, id).doc = store[id]
         /\ \A name \in DOMAIN pthd : pthd[name] # id
         /\ LRUHas(pre.lrud, id) =>
              \A o \in DirByPathOutcomes(LRUValue(pre.lrud, id).path) :
                o.err = Nil => o.doc \in FindByPath(LRUValue(pre.lrud, id).path)

\* the store refused the update of a directory that was cached, its path bound
C20_Witness ==
  /\ UpdateRefused(proc["p1"])
  /\ LRUHas(pre.lrud, proc["p1"].newdoc.id)
  /\ LRUValue(pre.lrud, proc["p1"].newdoc.id).path \in DOMAIN pre.pthd
  /\ pre.pthd[LRUValue(pre.lrud, proc["p1"].newdoc.id).path] = proc["p1"].newdoc.id

\* ----------------------------------------------------------------- C21
\* a call of UpdateDir that succeeded and changed the path of the directory
DirPathChanged(r) ==
  r.pc = "done" /\ r.op = "UpdateDir" /\ r.err = Nil /\ r.olddoc.path # r.newdoc.path

\* a call of UpdateFile that succeeded and changed the key of the file
FileKeyChanged(r) ==
  /\ r.pc = "done" /\ r.op = "UpdateFile" /\ r.err = Nil
  /\ genFilePathID(r.olddoc.folder, r.olddoc.name) # genFilePathID(r.newdoc.folder, r.newdoc.name)

\* the number of entries of an LRUCache under a key
Copies(l, key) == Cardinality({i \in DOMAIN l : l[i].id = key})

\* C21: after UpdateDir succeeded with a new path, the cache holds one entry
\* under the identifier, the updated record; its new path is bound to it, no
\* other path is, and dirCachedByPath on the old path does not return it.
\* The same holds for UpdateFile and the (folder, name) key of the file.
C21_UpdateRebinds ==
  \A p \in Procs :
    /\ DirPathChanged(proc[p]) =>
         LET id == proc[p].newdoc.id
         IN /\ Copies(lrud, id) = 1
            /\ LRUValue(lrud, id) = proc[p].newdoc
            /\ proc[p].newdoc.path \in DOMAIN pthd
            /\ pthd[proc[p].newdoc.path] = id
            /\ \A name \in DOMAIN pthd : pthd[name] = id => name = proc[p].newdoc.path
            /\ DirCachedByPath(proc[p].olddoc.path).doc.id # id
    /\ FileKeyChanged(proc[p]) =>
         LET id == proc[p].newdoc.id
             key == genFilePathID(proc[p].newdoc.folder, proc[p].newdoc.name)
         IN /\ Copies(lruf, id) = 1
            /\ LRUValue(lruf, id) = proc[p].newdoc
            /\ key \in DOMAIN pthf
            /\ pthf[key] = id
            /\ \A k \in DOMAIN pthf : pthf[k] = id => k = key

\* the directory was cached under its old path when UpdateDir began
C21_Witness ==
  /\ DirPathChanged(proc["p1"])
  /\ LRUHas(pre.lrud, proc["p1"].newdoc.id)
  /\ proc["p1"].olddoc.path \in DOMAIN pre.pthd
  /\ pre.pthd[proc["p1"].olddoc.path] = proc["p1"].newdoc.id

\* ======================================================================
\* The lookups of LocalCache as calls whose result is kept (SpecLookup)
\* ======================================================================
\* the result of a lookup: the argument, the document returned and the error
Looked(p, opname, arg, doc, e) ==
  Step(p, [Idle EXCEPT !.pc = "done", !.op = opname, !.arg = arg, !.newdoc = doc, !.err = e])

\* LocalCache.DirByID (lines 76-95), its result kept
CallDirByID(p, fileID) ==
  /\ proc[p].pc = "idle"
  /\ LET r == DirByIDIn(DirCache, fileID)
     IN /\ SetDirCache(r.c)
        /\ Looked(p, "DirByID", <<fileID>>, r.doc, r.err)
  /\ SnapshotCache
  /\ UNCHANGED <<store, fs, lruf, pthf, nmods, locks>>

\* couchdb.GetDoc followed by the check of the type of FileByID (lines 168-176)
GetFileDoc(fileID) ==
  IF ~HasDoc(fileID) THEN [err |-> "NotFound", doc |-> NoDoc]
  ELSE IF store[fileID].type # FileType THEN [err |-> "ErrNotExist", doc |-> NoDoc]
  ELSE [err |-> Nil, doc |-> store[fileID]]

\* LocalCache.FileByID (lines 162-179), its result kept: the entry of the
\* cache, made the most recent one, or the record of the store, which is
\* returned and not cached
CallFileByID(p, fileID) ==
  /\ proc[p].pc = "idle"
  /\ IF LRUHas(lruf, fileID)
     THEN /\ lruf' = LRUGet(lruf, fileID)
          /\ Looked(p, "FileByID", <<fileID>>, LRUValue(lruf, fileID), Nil)
     ELSE /\ lruf' = lruf
          /\ Looked(p, "FileByID", <<fileID>>, GetFileDoc(fileID).doc, GetFileDoc(fileID).err)
  /\ SnapshotCache
  /\ UNCHANGED <<store, fs, lrud, pthd, pthf, touched, nmods, locks>>

\* LocalCache.DirByPath (lines 97-117) in the current state: the results a
\* call may have, each with the cache of the directories it leaves
DirByPathIn(name) ==
  LET c == DirCachedByPath(name)
  IN IF c.ok /\ c.err # Nil THEN {[err |-> c.err, doc |-> NoDoc, c |-> DirCache]}
     ELSE IF c.ok
     THEN {[err |-> Nil, doc |-> c.doc,
            c |-> [lru |-> LRUGet(lrud, c.doc.id), pth |-> pthd,
                   touched |-> Touch(touched, c.doc.id)]]}
     ELSE IF FindByPath(name) = {} THEN {[err |-> "ErrNotExist", doc |-> NoDoc, c |-> DirCache]}
     ELSE {[err |-> Nil, doc |-> d,
            c |-> [lru |-> touchDir(lrud, pthd, d).lru, pth |-> touchDir(lrud, pthd, d).pth,
                   touched |-> Touch(touched, d.id)]] : d \in FindByPath(name)}

\* LocalCache.DirByPath, its result kept
CallDirByPath(p, name) ==
  /\ proc[p].pc = "idle"
  /\ \E r \in DirByPathIn(name) :
       /\ SetDirCache(r.c)
       /\ Looked(p, "DirByPath", name, r.doc, r.err)
  /\ SnapshotCache
  /\ UNCHANGED <<store, fs, lruf, pthf, nmods, locks>>

\* fileCachedByFolderID and the rest of FileByPath (lines 190-217): the
\* results a call may have, each with the cache of the files it leaves
FileLookupIn(folderID, filename) ==
  LET key == genFilePathID(folderID, filename)
      found == {i \in DOMAIN store : /\ store[i].folder = folderID
                                     /\ store[i].name = filename
                                     /\ store[i].type = FileType}
  IN IF key \in DOMAIN pthf
     THEN IF LRUHas(lruf, pthf[key])
          THEN {[err |-> Nil, doc |-> LRUValue(lruf, pthf[key]),
                 lru |-> LRUGet(lruf, pthf[key]), pth |-> pthf]}
          ELSE {[err |-> "panic", doc |-> NoDoc, lru |-> lruf, pth |-> pthf]}
     ELSE IF found = {} THEN {[err |-> "ErrNotExist", doc |-> NoDoc, lru |-> lruf, pth |-> pthf]}
     ELSE {[err |-> Nil, doc |-> store[i],
            lru |-> touchFile(lruf, pthf, store[i]).lru,
            pth |-> touchFile(lruf, pthf, store[i]).pth] : i \in found}

\* LocalCache.FileByPath (lines 181-218), its result kept: DirByPath on the
\* directory of the name, then the file of that folder and name
CallFileByPath(p, dirpath, filename) ==
  /\ proc[p].pc = "idle"
  /\ \E r \in DirByPathIn(dirpath) :
       /\ SetDirCache(r.c)
       /\ IF r.err # Nil
          THEN /\ UNCHANGED <<lruf, pthf>>
               /\ Looked(p, "FileByPath", Join(dirpath, filename), NoDoc, r.err)
          ELSE \E f \in FileLookupIn(r.doc.id, filename) :
                 /\ lruf' = f.lru
                 /\ pthf' = f.pth
                 /\ Looked(p, "FileByPath", Join(dirpath, filename), f.doc, f.err)
  /\ SnapshotCache
  /\ UNCHANGED <<store, fs, nmods, locks>>

\* Documents are created through the cache, the store accepting every write,
\* and looked up by identifier and by path.
NextLookup ==
  \E p \in {"p1"} :
    \/ \E name \in LocalNames, f \in {RootFolderID} \cup DirIDs : CreateDir(p, name, f, FALSE)
    \/ \E name \in LocalNames, f \in {RootFolderID} \cup DirIDs : CreateFile(p, name, f, FALSE)
    \/ \E id \in {RootFolderID} \cup DirIDs : CallDirByID(p, id)
    \/ \E id \in {RootFolderID} \cup DirIDs : CallFileByID(p, id)
    \/ \E name \in LocalPaths : CallDirByPath(p, name)
    \/ \E name \in LocalPaths, f \in LocalNames : CallFileByPath(p, name, f)
    \/ ReturnLocal(p)

SpecLookup == InitLocal /\ [][NextLookup]_vars

\* ----------------------------------------------------------------- C22
\* a lookup by identifier that returned a document
GotByID(r, opname) == r.pc = "done" /\ r.op = opname /\ r.err = Nil

\* C22: after DirByID or FileByID returned a document, the document is
\* resident in the cache of its kind under its identifier, so that the next
\* lookup by that identifier is answered by the cache.
C22_GetByIDCaches ==
  \A p \in Procs :
    /\ GotByID(proc[p], "DirByID") =>
         /\ LRUHas(lrud, proc[p].arg[1])
         /\ LRUValue(lrud, proc[p].arg[1]) = proc[p].newdoc
    /\ GotByID(proc[p], "FileByID") =>
         /\ LRUHas(lruf, proc[p].arg[1])
         /\ LRUValue(lruf, proc[p].arg[1]) = proc[p].newdoc

\* ----------------------------------------------------------------- C23
\* a lookup that returned an error
LookupFailed(r) ==
  r.pc = "done" /\ r.op \in {"DirByID", "FileByID", "DirByPath", "FileByPath"} /\ r.err # Nil

CachesUnchanged == lrud = pre.lrud /\ pthd = pre.pthd /\ lruf = pre.lruf /\ pthf = pre.pthf

\* C23 as stated: a lookup that fails leaves the two LRUCache and the two
\* indexes as they were, and a lookup by path fails with ErrNotExist.
C23_FailedLookupChangesNothing ==
  \A p \in Procs :
    LookupFailed(proc[p]) =>
      /\ CachesUnchanged
      /\ proc[p].op \in {"DirByPath", "FileByPath"} => proc[p].err = "ErrNotExist"

\* the directory of the name given to FileByPath was found: it is cached, or
\* made the most recent entry
ParentLookedUp(name) ==
  \E i \in DOMAIN store :
    /\ store[i].type = DirType
    /\ store[i].path = Dir(name)
    /\ \/ /\ LRUHas(pre.lrud, i)
          /\ lrud = LRUGet(pre.lrud, i)
          /\ pthd = pre.pthd
       \/ /\ lrud = touchDir(pre.lrud, pre.pthd, store[i]).lru
          /\ pthd = touchDir(pre.lrud, pre.pthd, store[i]).pth

\* C23, amended: DirByID, FileByID and DirByPath that fail leave the caches
\* as they were; FileByPath that fails leaves the cache of the files as it
\* was and changes the cache of the directories by the lookup of the parent
\* directory at most; a lookup by path fails with ErrNotExist.
C23_FailedLookupCachesParentOnly ==
  \A p \in Procs :
    LookupFailed(proc[p]) =>
      /\ store = pre.store
      /\ lruf = pre.lruf
      /\ pthf = pre.pthf
      /\ proc[p].op \in {"DirByPath", "FileByPath"} => proc[p].err = "ErrNotExist"
      /\ proc[p].op # "FileByPath" => CachesUnchanged
      /\ proc[p].op = "FileByPath" => (CachesUnchanged \/ ParentLookedUp(proc[p].arg))

\* FileByPath found the directory in the store, cached it, and found no file
C23_Witness ==
  /\ LookupFailed(proc["p1"])
  /\ proc["p1"].op = "FileByPath"
  /\ Len(lrud) > Len(pre.lrud)
  /\ lruf = pre.lruf

\* ======================================================================
\* DirDoc.Path called twice on one document (specification SpecPath)
\* ======================================================================
\* the path is computed and returned, the document left without it
DirDocPathNoMemo(d) ==
  IF d.path # <<>> THEN [err |-> Nil, path |-> d.path, doc |-> d, gets |-> 0]
  ELSE IF GetDirDoc(d.folder).err # Nil
  THEN [err |-> GetDirDoc(d.folder).err, path |-> <<>>, doc |-> d, gets |-> 1]
  ELSE [err |-> Nil, path |-> Join(GetDirDoc(d.folder).doc.path, d.name), doc |-> d, gets |-> 1]

\* DirDoc.Path (lines 72-85): the path, the document as the call leaves it,
\* and the number of parents read from the store (d.Parent, line 74). The
\* parent read from the store has its path: parent.Path returns it as it is.
DirDocPath(d) ==
  IF d.path # <<>> THEN [err |-> Nil, path |-> d.path, doc |-> d, gets |-> 0]
  ELSE IF GetDirDoc(d.folder).err # Nil
  THEN [err |-> GetDirDoc(d.folder).err, path |-> <<>>, doc |-> d, gets |-> 1]
  ELSE [err |-> Nil, path |-> Join(GetDirDoc(d.folder).doc.path, d.name),
        doc |-> [d EXCEPT !.path = Join(GetDirDoc(d.folder).doc.path, d.name)], gets |-> 1]

\* the documents Path is called on: a new document, its path not computed
\* yet, or a record read from the store
PathDocs ==
  {NewDirDoc(name, f, <<>>) : name \in Names, f \in {RootFolderID} \cup DirIDs}
    \cup {store[i] : i \in DOMAIN store}

\* the first call of d.Path(c)
PathFirst(p, d) ==
  /\ proc[p].pc = "idle"
  /\ LET r == DirDocPath(d)
     IN Step(p, [Idle EXCEPT !.pc = "done", !.op = "Path", !.olddoc = d, !.newdoc = r.doc,
                             !.oldpath = r.path, !.newpath = r.path, !.err = r.err,
                             !.calls = IF r.gets = 0 THEN {} ELSE {"get"}])
  /\ UNCHANGED <<store, fs, lrud, pthd, lruf, pthf, touched, nmods, locks>>

\* the next call of d.Path(c) on the document the first call left
PathAgain(p) ==
  /\ proc[p].pc = "done"
  /\ proc[p].op = "Path"
  /\ LET r == DirDocPath(proc[p].newdoc)
     IN Step(p, [proc[p] EXCEPT !.op = "PathAgain", !.olddoc = proc[p].newdoc, !.newdoc = r.doc,
                                !.newpath = r.path, !.err = r.err,
                                !.calls = IF r.gets = 0 THEN {} ELSE {"get"}])
  /\ UNCHANGED <<store, fs, lrud, pthd, lruf, pthf, touched, nmods, locks>>

\* Directories are created with no failure; between two creations Path is
\* called on a document, and called again.
NextPath ==
  \E p \in {"p1"} :
    \/ /\ Snapshot
       /\ \/ CreateRootDirectory(p, FALSE)
          \/ \E name \in Names, folderID \in {NoID} \cup DirIDs : CreateBegin(p, name, folderID, <<>>)
    \/ /\ UNCHANGED pre
       /\ \/ CreateMkdir(p, FALSE)
          \/ CreateStore(p, FALSE)
          \/ \E d \in PathDocs : PathFirst(p, d)
          \/ PathAgain(p)
    \/ /\ Forget
       /\ Return(p)

SpecPath == Init /\ [][NextPath]_vars

\* ----------------------------------------------------------------- C24
\* C24: when Path has returned a path, the document holds it as its
\* Fullpath; a call on a document that has its Fullpath returns it, reads no
\* parent and leaves the document as it is; so the second of two calls
\* returns what the first returned and reads nothing from the store.
C24_PathMemoized ==
  \A p \in Procs :
    LET r == proc[p]
    IN /\ (r.pc = "done" /\ r.op \in {"Path", "PathAgain"} /\ r.err = Nil) =>
            /\ r.newdoc.path = r.newpath
            /\ r.olddoc.path # <<>> =>
                 (r.newpath = r.olddoc.path /\ r.calls = {} /\ r.newdoc = r.olddoc)
       /\ (r.pc = "done" /\ r.op = "PathAgain" /\ r.oldpath # <<>>) =>
            /\ r.err = Nil
            /\ r.newpath = r.oldpath
            /\ r.calls = {}
            /\ r.newdoc = r.olddoc

\* Path was called twice on a new document whose parent is not the root: the
\* first call read the parent
C24_Witness ==
  /\ proc["p1"].pc = "done"
  /\ proc["p1"].op = "PathAgain"
  /\ proc["p1"].err = Nil
  /\ proc["p1"].newdoc.id = NoID
  /\ proc["p1"].newdoc.folder # RootFolderID
  /\ Len(proc["p1"].newpath) > Len(RootPath) + Len(proc["p1"].newdoc.name)

\* ----------------------------------------------------------------- C25
\* the records of the store that have the path "/"
AtRootPath == {i \in DOMAIN store : store[i].path = RootPath}

CanLock(l) == l.w = NoHolder /\ l.r = 0

CanRLock(l) == l.w = NoHolder

\* the functions that take mud (lines 250-259, 273-277, 285-305) and those
\* that take muf (lines 261-271, 279-283, 307-327), all with Lock()
DirPrims == {"touchDir", "rmDir", "dirCachedByID", "dirCachedByPath"}

FilePrims == {"touchFile", "rmFile", "fileCachedByID", "fileCachedByFolderID"}

LockOf(prim) == IF prim \in DirPrims THEN "mud" ELSE "muf"

\* the caches after the body of one of these functions, given the document
\* (or the identifier, or the key, of the document)
Effect(prim, doc) ==
  LET same == [lrud |-> lrud, pthd |-> pthd, lruf |-> lruf, pthf |-> pthf, touched |-> touched]
      key == genFilePathID(doc.folder, doc.name)
  IN CASE prim = "touchDir" ->
            [same EXCEPT !.lrud = touchDir(lrud, pthd, doc).lru,
                         !.pthd = touchDir(lrud, pthd, doc).pth,
                         !.touched = Touch(touched, doc.id)]
       [] prim = "rmDir" ->
            [same EXCEPT !.lrud = rmDir(lrud, pthd, doc).lru, !.pthd = rmDir(lrud, pthd, doc).pth]
       [] prim = "dirCachedByID" ->
            IF LRUHas(lrud, doc.id)
            THEN [same EXCEPT !.lrud = LRUGet(lrud, doc.id), !.touched = Touch(touched, doc.id)]
            ELSE same
       [] prim = "dirCachedByPath" ->
            IF doc.path \in DOMAIN pthd /\ LRUHas(lrud, pthd[doc.path])
            THEN [same EXCEPT !.lrud = LRUGet(lrud, pthd[doc.path]),
                              !.touched = Touch(touched, pthd[doc.path])]
            ELSE same
       [] prim = "touchFile" ->
            [same EXCEPT !.lruf = touchFile(lruf, pthf, doc).lru,
                         !.pthf = touchFile(lruf, pthf, doc).pth]
       [] prim = "rmFile" ->
            [same EXCEPT !.lruf = rmFile(lruf, pthf, doc).lru, !.pthf = rmFile(lruf, pthf, doc).pth]
       [] prim = "fileCachedByID" ->
            IF LRUHas(lruf, doc.id) THEN [same EXCEPT !.lruf = LRUGet(lruf, doc.id)] ELSE same
       [] prim = "fileCachedByFolderID" ->
            IF key \in DOMAIN pthf /\ LRUHas(lruf, pthf[key])
            THEN [same EXCEPT !.lruf = LRUGet(lruf, pthf[key])]
            ELSE same

\* fc.mud.Lock() or fc.muf.Lock() at the beginning of one of these functions
Enter(p, prim, doc) ==
  /\ proc[p].pc = "idle"
  /\ doc.type = IF prim \in DirPrims THEN DirType ELSE FileType
  /\ CanLock(locks[LockOf(prim)])
  /\ locks' = [locks EXCEPT ![LockOf(prim)].w = p]
  /\ Step(p, [Idle EXCEPT !.pc = "locked", !.op = prim, !.newdoc = doc])
  /\ UNCHANGED <<store, fs, lrud, pthd, lruf, pthf, touched, nmods, pre>>

\* the body of the function and its deferred Unlock()
Leave(p) ==
  /\ proc[p].pc = "locked"
  /\ LET c == Effect(proc[p].op, proc[p].newdoc)
     IN /\ lrud' = c.lrud /\ pthd' = c.pthd /\ lruf' = c.lruf /\ pthf' = c.pthf
        /\ touched' = c.touched
  /\ locks' = [locks EXCEPT ![LockOf(proc[p].op)].w = NoHolder]
  /\ Step(p, Idle)
  /\ UNCHANGED <<store, fs, nmods, pre>>

\* Len, line 243: fc.mud.RLock()
LenRLockDirs(p) ==
  /\ proc[p].pc = "idle"
  /\ CanRLock(locks.mud)
  /\ locks.mud.r < MaxReaders
  /\ locks' = [locks EXCEPT !.mud.r = @ + 1]
  /\ Step(p, [Idle EXCEPT !.pc = "Len_mud", !.op = "Len"])
  /\ UNCHANGED <<store, fs, lrud, pthd, lruf, pthf, touched, nmods, pre>>

\* Len, line 244: fc.muf.RLock()
LenRLockFiles(p) ==
  /\ proc[p].pc = "Len_mud"
  /\ CanRLock(locks.muf)
  /\ locks' = [locks EXCEPT !.muf.r = @ + 1]
  /\ Step(p, [proc[p] EXCEPT !.pc = "Len_reading"])
  /\ UNCHANGED <<store, fs, lrud, pthd, lruf, pthf, touched, nmods, pre>>

\* line 247: fc.lrud.Len() + fc.lrud.Len()
LocalCacheLen == Len(lrud) + Len(lrud)

\* Len, line 247: the value to return is computed
LenRead(p) ==
  /\ proc[p].pc = "Len_reading"
  /\ Step(p, [proc[p] EXCEPT !.pc = "Len_deferred", !.arg = <<LocalCacheLen>>])
  /\ UNCHANGED <<store, fs, lrud, pthd, lruf, pthf, touched, nmods, locks, pre>>

\* sync.RWMutex.Unlock by p: the lock is released when p holds it as the
\* writer; otherwise Unlock fails ("sync: Unlock of unlocked RWMutex") and
\* the readers stay
RWUnlock(l, p) ==
  IF l.w = p THEN [ok |-> TRUE, l |-> [l EXCEPT !.w = NoHolder]]
  ELSE [ok |-> FALSE, l |-> l]

\* Len, lines 245-246: the deferred fc.muf.Unlock() and fc.mud.Unlock(). A
\* failed Unlock is a panic of the goroutine or, with a later runtime, a
\* fatal error that stops every goroutine (fatal).
LenUnlock(p, fatal) ==
  /\ proc[p].pc = "Len_deferred"
  /\ LET f == RWUnlock(locks.muf, p)
         d == RWUnlock(locks.mud, p)
     IN /\ locks' = [mud |-> d.l, muf |-> f.l]
        /\ IF f.ok /\ d.ok THEN Step(p, Finish(proc[p], Nil))
           ELSE IF fatal THEN proc' = [q \in Procs |-> [proc[q] EXCEPT !.pc = "halted"]]
           ELSE Step(p, Finish(proc[p], "panic"))
  /\ UNCHANGED <<store, fs, lrud, pthd, lruf, pthf, touched, nmods, pre>>

\* the caller of Len goes on, the panic recovered
ReturnLen(p) ==
  /\ proc[p].pc = "done"
  /\ Step(p, Idle)
  /\ UNCHANGED <<store, fs, lrud, pthd, lruf, pthf, touched, nmods, locks, pre>>

\* the documents of the instance of SpecLock: the root, the directory /a and
\* two files of the root
LockStore ==
  [i \in 0..3 |->
     CASE i = 0 -> RootDoc
       [] i = 1 -> [NewDirDoc(<<"a">>, RootFolderID, <<>>) EXCEPT !.id = i, !.rev = 1, !.path = <<Sep, "a">>]
       [] i = 2 -> [NewFileDoc(<<"a">>, RootFolderID) EXCEPT !.id = i, !.rev = 1]
       [] i = 3 -> [NewFileDoc(<<"b">>, RootFolderID) EXCEPT !.id = i, !.rev = 1]]

InitLock ==
  /\ store = LockStore
  /\ fs = {RootPath, <<Sep, "a">>}
  /\ lrud = <<>>
  /\ pthd = <<>>
  /\ lruf = <<>>
  /\ pthf = <<>>
  /\ touched = <<>>
  /\ proc = [p \in Procs |-> Idle]
  /\ nmods = 0
  /\ locks = Unlocked
  /\ pre = NoSnapshot

NextLock ==
  \E p \in Procs :
    \/ \E prim \in DirPrims \cup FilePrims, i \in DOMAIN store : Enter(p, prim, store[i])
    \/ Leave(p)
    \/ LenRLockDirs(p)
    \/ LenRLockFiles(p)
    \/ LenRead(p)
    \/ \E fatal \in BOOLEAN : LenUnlock(p, fatal)
    \/ ReturnLen(p)

SpecLock == InitLock /\ [][NextLock]_vars

\* ----------------------------------------------------------------- C26
\* C26: the value Len computes is the number of entries of the cache of the
\* directories plus the number of entries of the cache of the files.
C26_LenCountsBoth ==
  \A p \in Procs :
    (proc[p].op = "Len" /\ proc[p].pc \in {"Len_deferred", "done"}) =>
      proc[p].arg = <<Len(lrud) + Len(lruf)>>

\* ----------------------------------------------------------------- C28
\* the goroutine reads or writes lrud or pthd (in Len: fc.lrud.Len())
InsideDirs(p) ==
  \/ proc[p].pc = "locked" /\ proc[p].op \in DirPrims
  \/ proc[p].pc = "Len_reading"

\* the goroutine reads or writes lruf or pthf
InsideFiles(p) == proc[p].pc = "locked" /\ proc[p].op \in FilePrims

\* C28: a goroutine that reads or writes the LRUCache or the index of a
\* cache holds the lock of that cache as its writer, and no two goroutines
\* are inside the structures of one cache at the same time.
C28_ExclusiveAccess ==
  \A p \in Procs :
    /\ InsideDirs(p) => locks.mud.w = p
    /\ InsideFiles(p) => locks.muf.w = p
    /\ \A q \in Procs \ {p} :
         /\ ~(InsideDirs(p) /\ InsideDirs(q))
         /\ ~(InsideFiles(p) /\ InsideFiles(q))

\* ----------------------------------------------------------------- C27
\* C27: in a ModifyDirMetadata that changes the path, the record of the
\* directory is updated in the store before the descendants are looked for
\* and rewritten, and when the update of the record has failed no other
\* record has been rewritten.
C27_RecordBeforeDescendants ==
  \A p \in Procs :
    proc[p].op = "modify" =>
      /\ "find" \in proc[p].calls => "update" \in proc[p].calls
      /\ (proc[p].pc = "done" /\ "update" \in proc[p].calls /\ proc[p].err # Nil) =>
           \A i \in DOMAIN pre.store : store[i] = pre.store[i]

\* ----------------------------------------------------------------- C29
\* the record was at oldpath + "/" + suffix when the call began
Below(r, i) == HasPrefix(pre.store[i].path, r.oldpath \o <<Sep>>)

\* the record of a descendant as the propagation writes it: the new path
\* with the same suffix, the next revision, nothing else changed
Rewritten(r, i) ==
  [pre.store[i] EXCEPT !.path = r.newpath \o SubSeq(@, Len(r.oldpath) + 1, Len(@)),
                       !.rev = @ + 1]

\* C29: while and after ModifyDirMetadata renames oldpath to newpath, a
\* record other than the directory itself whose path is not oldpath + "/" +
\* suffix is as it was, /ab when /a is renamed included; a record whose path
\* is oldpath + "/" + suffix is as it was or has the path newpath + "/" +
\* suffix and the next revision, under the same identifier; after a call
\* that succeeded each of those has been rewritten. No record appears or
\* disappears.
C29_OnlySubtreeRewritten ==
  \A p \in Procs :
    (proc[p].op = "modify" /\ proc[p].oldpath # <<>>) =>
      /\ DOMAIN store = DOMAIN pre.store
      /\ \A i \in DOMAIN store \ {proc[p].olddoc.id} :
           /\ ~Below(proc[p], i) => store[i] = pre.store[i]
           /\ Below(proc[p], i) => store[i] \in {pre.store[i], Rewritten(proc[p], i)}
           /\ (Below(proc[p], i) /\ SuccessfulMove(proc[p])) => store[i] = Rewritten(proc[p], i)

\* /a, holding a directory, has been moved while /ab exists: the child is
\* rewritten and /ab, which begins with the same characters, is not
C29_Witness ==
  /\ SuccessfulMove(proc["p1"])
  /\ \E i \in DOMAIN store \ {proc["p1"].olddoc.id} :
       Below(proc["p1"], i) /\ store[i] = Rewritten(proc["p1"], i)
  /\ \E j \in DOMAIN store \ {proc["p1"].olddoc.id} :
       /\ HasPrefix(pre.store[j].path, proc["p1"].oldpath)
       /\ ~Below(proc["p1"], j)
       /\ store[j] = pre.store[j]

\* ======================================================================
\* Termination of the propagation: one goroutine calls ModifyDirMetadata on
\* an instance that holds /, /a, /a/a and /ab; the prefix query and the
\* update of each descendant may fail (specification SpecBulk)
\* ======================================================================
NextBulk ==
  \E p \in {"p1"} :
    \/ /\ Snapshot
       /\ \E id \in DirIDs, patch \in PairPatches : ModifyBegin(p, id, patch)
    \/ /\ UNCHANGED pre
       /\ \/ ModifyPath(p)
          \/ SafeRenameCheck(p, FALSE)
          \/ SafeRenameMove(p, FALSE)
          \/ \E f \in BOOLEAN : BulkFind(p, f)
          \/ \E i \in DirIDs, f \in BOOLEAN : BulkChild(p, i, f)
          \/ \E i \in DirIDs : BulkRecv(p, i)
          \/ ModifyUpdate(p, FALSE)
    \/ /\ Forget
       /\ Return(p)

\* the calling goroutine inside bulkUpdateDocsPath: the prefix query answers
\* (line 345) and the loop takes a result as soon as a unit offers one
\* (line 364)
BulkCaller(p) ==
  /\ UNCHANGED pre
  /\ \/ \E f \in BOOLEAN : BulkFind(p, f)
     \/ \E i \in DirIDs : BulkRecv(p, i)

\* the goroutine spawned for descendant i (lines 353-360): the scheduler runs
\* it, its update of the store answers, and it offers its result
BulkUnit(p, i) ==
  /\ UNCHANGED pre
  /\ \E f \in BOOLEAN : BulkChild(p, i, f)

\* every goroutine that can run does run
BulkFairness ==
  /\ WF_vars(BulkCaller("p1"))
  /\ \A i \in DirIDs : WF_vars(BulkUnit("p1", i))

SpecBulk == InitPair /\ [][NextBulk]_vars /\ BulkFairness

\* the number of results unit i has had received on the channel
Receipts(r, i) == Cardinality({k \in DOMAIN r.rcv : r.rcv[k] = i})

\* bulkUpdateDocsPath has returned and no unit is left: every unit spawned
\* has sent its one result and that result has been received once
BulkSettled(r) ==
  /\ r.pc \notin {"m_find", "m_collect"}
  /\ \A i \in DOMAIN r.children :
       /\ r.children[i].st = "received"
       /\ Receipts(r, i) = 1
  /\ Len(r.rcv) = Cardinality(DOMAIN r.children)

\* C30: a propagation that has begun returns, whatever the number of
\* descendants the prefix query finds (none included) and whichever updates
\* fail, and when it has returned every unit spawned has sent its result once
\* and had it received once: no unit is left blocked on the channel.
C30_PropagationTerminates ==
  \A p \in Procs : (proc[p].pc = "m_find") ~> BulkSettled(proc[p])

\* a propagation over two descendants has returned, the update of one of
\* them having failed
C30_Witness ==
  /\ proc["p1"].op = "modify"
  /\ proc["p1"].pc = "done"
  /\ Cardinality(DOMAIN proc["p1"].children) = 2
  /\ BulkSettled(proc["p1"])
  /\ \E i \in DOMAIN proc["p1"].children : proc["p1"].children[i].res # Nil

\* ----------------------------------------------------------------- C31
\* no goroutine is inside a function of LocalCache
NobodyInside == \A p \in Procs : proc[p].pc \in {"idle", "done"}

\* C31: a call to Len returns without an error, and whenever no goroutine is
\* inside a function of the cache both locks are free (no writer, no reader
\* left), so that a later operation can take them.
C31_LenLeavesLocksFree ==
  /\ \A p \in Procs :
       (proc[p].op = "Len" /\ proc[p].pc \in {"done", "halted"}) => proc[p].err = Nil
  /\ NobodyInside => locks = Unlocked

====
